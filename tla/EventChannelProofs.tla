--------------------------- MODULE EventChannelProofs ---------------------------
(***************************************************************************)
(* What TLAPS proves of EventChannel for every set of services and of      *)
(* sources and every capacity: its types, that no thread of a handle is    *)
(* ever left without its handle, and that RAMPP reports a clean end only   *)
(* when every such thread has been joined.  All three rest on the order in *)
(* which the loop does its work, which is what the invariant describes.    *)
(***************************************************************************)
EXTENDS EventChannel, FiniteSetTheorems, TLAPS

-------------------------------------------------------------------------------
(* A list of operations in order.                                          *)
Starting == {"launch", "check"}
Joining  == {"stop", "join_checker", "kill", "join_watcher"}
OpName   == Starting \cup Joining \cup {"send", "lock", "unlock", "done", "end"}
Op       == [op : OpName, svc : Service]

Joins(s, name, svc, i) == s[i].op = name /\ s[i].svc = svc
Before(s, name, svc, n) == \E j \in 1..Len(s) : j < n /\ Joins(s, name, svc, j)

(* At most one thread is started, and never after the end was announced:   *)
(* both threads of every service are joined in between.                    *)
StartsOne(s) ==
    \A i, j \in 1..Len(s) : s[i].op \in Starting /\ s[j].op \in Starting => i = j
JoinsLast(s) ==
    \A d, i \in 1..Len(s) : s[d].op = "done" /\ s[i].op \in Starting =>
        /\ i < d
        /\ \A svc \in Service, name \in {"join_checker", "join_watcher"} :
              \E j \in 1..Len(s) : i < j /\ j < d /\ Joins(s, name, svc, j)

(* The mutex is given back, and the announcement is followed by the end.   *)
Unlocks(s) ==
    \A i \in 1..Len(s) : s[i].op = "lock" => \E j \in 1..Len(s) : i < j /\ s[j].op = "unlock"
EndsLast(s) ==
    \A i \in 1..Len(s) :
        /\ s[i].op = "end" => i = Len(s)
        /\ s[i].op = "done" => i < Len(s) /\ s[Len(s)].op = "end"

Orderly(s) == s \in Seq(Op) /\ StartsOne(s) /\ JoinsLast(s) /\ Unlocks(s) /\ EndsLast(s)

-------------------------------------------------------------------------------
(* The inductive invariant: what is left of the loop's work is in order,   *)
(* and fits the threads there are.                                         *)
Simple ==
    /\ chan \in Seq({"event", "shutdown"}) /\ Len(chan) <= Capacity
    /\ ended \in BOOLEAN /\ done \in BOOLEAN /\ mutex \in {"free", "loop", "ui"}
    /\ checker \in [Service -> {"none", "waiting", "diagnosing", "sending", "gone"}]
    /\ watcher \in [Service -> {"none", "watching", "diagnosing", "reporting", "gone"}]
    /\ stop \in [Service -> BOOLEAN] /\ killed \in [Service -> BOOLEAN]
    /\ source \in [Sources -> {"idle", "event", "shutdown", "gone"}]
    /\ ui \in {"idle", "drawing", "clicking", "closing", "awaiting", "clean", "timed_out"}
    /\ clicks \in 0 .. MaxClicks /\ leaked = {}

(* Where a thread is started, the one before it is gone or joined first.   *)
StartsFree ==
    \A i \in 1..Len(plan) :
        /\ plan[i].op = "launch" =>
              watcher[plan[i].svc] = "none" \/ Before(plan, "join_watcher", plan[i].svc, i)
        /\ plan[i].op = "check" =>
              checker[plan[i].svc] = "none" \/ Before(plan, "join_checker", plan[i].svc, i)

(* Where the end is announced, all threads are gone or joined first.       *)
AllJoined ==
    \A i \in 1..Len(plan) : plan[i].op = "done" =>
        \A svc \in Service :
            /\ watcher[svc] = "none" \/ Before(plan, "join_watcher", svc, i)
            /\ checker[svc] = "none" \/ Before(plan, "join_checker", svc, i)

(* Once it is, they are, and the loop comes to its end.                    *)
Quiet ==
    done =>
        /\ \A svc \in Service : watcher[svc] = "none" /\ checker[svc] = "none"
        /\ \A i \in 1..Len(plan) : plan[i].op \notin Starting
        /\ ended \/ (plan # <<>> /\ plan[Len(plan)].op = "end")

Held   == mutex = "loop" => \E i \in 1..Len(plan) : plan[i].op = "unlock"
Closed == ended => plan = <<>>

ChanInv ==
    /\ Simple /\ Orderly(plan) /\ StartsFree /\ AllJoined /\ Quiet /\ Held /\ Closed /\ CleanExit

-------------------------------------------------------------------------------
(* Lists, one after the other.                                             *)
LEMMA Concat ==
    ASSUME NEW s \in Seq(Op), NEW t \in Seq(Op)
    PROVE  /\ s \o t \in Seq(Op) /\ Len(s) \in Nat /\ Len(t) \in Nat
           /\ Len(s \o t) = Len(s) + Len(t)
           /\ \A i \in 1..Len(s) : (s \o t)[i] = s[i]
           /\ \A i \in 1..Len(t) : (s \o t)[Len(s) + i] = t[i]
           /\ \A i \in 1..Len(s) + Len(t) :
                 \/ i \in 1..Len(s) /\ (s \o t)[i] = s[i]
                 \/ \E j \in 1..Len(t) : i = Len(s) + j /\ (s \o t)[i] = t[j]
<1>1. /\ s \o t \in Seq(Op) /\ Len(s) \in Nat /\ Len(t) \in Nat
      /\ Len(s \o t) = Len(s) + Len(t)
  OBVIOUS
<1>2. \A i \in 1..Len(s) : (s \o t)[i] = s[i]
  BY <1>1
<1>3. \A i \in 1..Len(t) : (s \o t)[Len(s) + i] = t[i]
  BY <1>1
<1>4. ASSUME NEW i \in 1..Len(s) + Len(t), i \notin 1..Len(s)
      PROVE  \E j \in 1..Len(t) : i = Len(s) + j /\ (s \o t)[i] = t[j]
  <2>1. i - Len(s) \in 1..Len(t) /\ i = Len(s) + (i - Len(s))
    BY <1>1, <1>4
  <2> QED
    BY <1>3, <2>1
<1> QED
  BY <1>1, <1>2, <1>3, <1>4

(* What is left of a list when its first operation is done.                *)
LEMMA TailAt ==
    ASSUME NEW s \in Seq(Op), s # <<>>
    PROVE  /\ Tail(s) \in Seq(Op) /\ Len(s) \in Nat \ {0} /\ Len(Tail(s)) = Len(s) - 1
           /\ Head(s) = s[1] /\ s[1] \in Op
           /\ \A i \in 1..Len(s) - 1 : Tail(s)[i] = s[i + 1] /\ i + 1 \in 1..Len(s)
           /\ \A i \in 2..Len(s) : i - 1 \in 1..Len(s) - 1 /\ Tail(s)[i - 1] = s[i]
OBVIOUS

(* What is joined before a place still is, unless it was joined just now.  *)
LEMMA BeforeTail ==
    ASSUME NEW s \in Seq(Op), s # <<>>, NEW name, NEW svc, NEW n \in Nat,
           Before(s, name, svc, n + 1)
    PROVE  Joins(s, name, svc, 1) \/ Before(Tail(s), name, svc, n)
<1>1. PICK j \in 1..Len(s) : j < n + 1 /\ Joins(s, name, svc, j)
  BY DEF Before
<1>2. CASE j = 1
  BY <1>1, <1>2
<1>3. CASE j # 1
  <2>1. j - 1 \in 1..Len(Tail(s)) /\ j - 1 < n /\ Tail(s)[j - 1] = s[j]
    BY <1>1, <1>3, TailAt
  <2> QED
    BY <1>1, <2>1 DEF Before, Joins
<1> QED
  BY <1>2, <1>3

(* What is left of a list in order is in order.                            *)
LEMMA TailOrderly ==
    ASSUME NEW s, Orderly(s), s # <<>>
    PROVE  Orderly(Tail(s))
<1> DEFINE t == Tail(s)
<1>1. s \in Seq(Op)
  BY DEF Orderly
<1>2. /\ t \in Seq(Op) /\ Len(s) \in Nat \ {0} /\ Len(t) = Len(s) - 1
      /\ \A i \in 1..Len(t) : t[i] = s[i + 1] /\ i + 1 \in 1..Len(s) /\ i \in Nat
      /\ \A i \in 2..Len(s) : i - 1 \in 1..Len(t) /\ t[i - 1] = s[i]
  BY <1>1, TailAt
<1> HIDE DEF t
<1>3. StartsOne(t)
  <2> SUFFICES ASSUME NEW i \in 1..Len(t), NEW j \in 1..Len(t),
                      t[i].op \in Starting, t[j].op \in Starting
               PROVE  i = j
    BY DEF StartsOne
  <2>1. i + 1 = j + 1
    BY <1>2 DEF Orderly, StartsOne
  <2> QED
    BY <2>1
<1>4. JoinsLast(t)
  <2> SUFFICES ASSUME NEW d \in 1..Len(t), NEW i \in 1..Len(t),
                      t[d].op = "done", t[i].op \in Starting
               PROVE  /\ i < d
                      /\ \A svc \in Service, name \in {"join_checker", "join_watcher"} :
                            \E j \in 1..Len(t) : i < j /\ j < d /\ Joins(t, name, svc, j)
    BY DEF JoinsLast
  <2>1. d + 1 \in 1..Len(s) /\ i + 1 \in 1..Len(s) /\ s[d + 1].op = "done" /\ s[i + 1].op \in Starting
    BY <1>2
  <2>2. /\ i + 1 < d + 1
        /\ \A svc \in Service, name \in {"join_checker", "join_watcher"} :
              \E j \in 1..Len(s) : i + 1 < j /\ j < d + 1 /\ Joins(s, name, svc, j)
    BY <2>1 DEF Orderly, JoinsLast
  <2>3. ASSUME NEW svc \in Service, NEW name \in {"join_checker", "join_watcher"}
        PROVE  \E j \in 1..Len(t) : i < j /\ j < d /\ Joins(t, name, svc, j)
    <3>1. PICK j \in 1..Len(s) : i + 1 < j /\ j < d + 1 /\ Joins(s, name, svc, j)
      BY <2>2, <2>3
    <3>2. j \in 2..Len(s) /\ i < j - 1 /\ j - 1 < d
      BY <3>1
    <3> QED
      BY <1>2, <3>1, <3>2 DEF Joins
  <2> QED
    BY <2>2, <2>3
<1>5. Unlocks(t)
  <2> SUFFICES ASSUME NEW i \in 1..Len(t), t[i].op = "lock"
               PROVE  \E j \in 1..Len(t) : i < j /\ t[j].op = "unlock"
    BY DEF Unlocks
  <2>1. PICK j \in 1..Len(s) : i + 1 < j /\ s[j].op = "unlock"
    BY <1>2 DEF Orderly, Unlocks
  <2>2. j \in 2..Len(s) /\ i < j - 1
    BY <2>1
  <2> QED
    BY <1>2, <2>1, <2>2
<1>6. EndsLast(t)
  <2> SUFFICES ASSUME NEW i \in 1..Len(t)
               PROVE  /\ t[i].op = "end" => i = Len(t)
                      /\ t[i].op = "done" => i < Len(t) /\ t[Len(t)].op = "end"
    BY DEF EndsLast
  <2>1. i + 1 \in 1..Len(s) /\ t[i] = s[i + 1]
    BY <1>2
  <2>2. /\ s[i + 1].op = "end" => i + 1 = Len(s)
        /\ s[i + 1].op = "done" => i + 1 < Len(s) /\ s[Len(s)].op = "end"
    BY <2>1 DEF Orderly, EndsLast
  <2>3. Len(t) \in 1..Len(t) /\ t[Len(t)] = s[Len(s)]
    BY <1>2
  <2> QED
    BY <1>2, <2>1, <2>2, <2>3
<1> QED
  BY <1>2, <1>3, <1>4, <1>5, <1>6 DEF Orderly, t

(* A spawn that fails: its place in the list is taken by a send.           *)
LEMMA ReplacedAt ==
    ASSUME NEW s \in Seq(Op), s # <<>>
    PROVE  LET r == self_send \o Tail(s) IN
           /\ r \in Seq(Op) /\ Len(r) = Len(s) /\ Len(s) \in Nat \ {0}
           /\ 1 \in 1..Len(s) /\ r[1].op = "send"
           /\ \A i \in 1..Len(s) : i # 1 => r[i] = s[i]
<1> DEFINE r == self_send \o Tail(s)
<1>1. self_send \in Seq(Op) /\ Len(self_send) = 1 /\ self_send[1].op = "send"
  <2>1. anyone \in Service
    BY ChannelAssumption DEF anyone
  <2>2. op("send", anyone) \in Op /\ op("send", anyone).op = "send"
    BY <2>1 DEF op, Op, OpName
  <2> QED
    BY <2>2 DEF self_send
<1>2. /\ Tail(s) \in Seq(Op) /\ Len(s) \in Nat \ {0} /\ Len(Tail(s)) = Len(s) - 1
      /\ \A i \in 2..Len(s) : i - 1 \in 1..Len(s) - 1 /\ Tail(s)[i - 1] = s[i]
  BY TailAt
<1>3. /\ r \in Seq(Op) /\ Len(r) = 1 + (Len(s) - 1)
      /\ \A i \in 1..1 : r[i] = self_send[i]
      /\ \A i \in 1..Len(s) - 1 : r[1 + i] = Tail(s)[i]
  <2>1. /\ r \in Seq(Op) /\ Len(r) = Len(self_send) + Len(Tail(s))
        /\ \A i \in 1..Len(self_send) : r[i] = self_send[i]
        /\ \A i \in 1..Len(Tail(s)) : r[Len(self_send) + i] = Tail(s)[i]
    BY <1>1, <1>2, Concat
  <2> HIDE DEF r
  <2> QED
    BY <1>1, <1>2, <2>1
<1>4. ASSUME NEW i \in 1..Len(s), i # 1
      PROVE  r[i] = s[i]
  <2>1. i \in 2..Len(s) /\ i - 1 \in 1..Len(s) - 1 /\ 1 + (i - 1) = i
    BY <1>2, <1>4
  <2> HIDE DEF r
  <2> QED
    BY <1>2, <1>3, <2>1
<1>5. Len(r) = Len(s) /\ 1 \in 1..Len(s) /\ r[1].op = "send"
  BY <1>1, <1>2, <1>3
<1> QED
  BY <1>2, <1>3, <1>4, <1>5

(* The list stays in order, since nothing hangs on a start but what comes  *)
(* before it.                                                              *)
LEMMA ReplacedOrderly ==
    ASSUME NEW s, Orderly(s), s # <<>>, Head(s).op = "launch"
    PROVE  Orderly(self_send \o Tail(s))
<1> DEFINE r == self_send \o Tail(s)
<1>1. s \in Seq(Op)
  BY DEF Orderly
<1>2. /\ r \in Seq(Op) /\ Len(r) = Len(s) /\ Len(s) \in Nat \ {0}
      /\ 1 \in 1..Len(s) /\ r[1].op = "send"
      /\ \A i \in 1..Len(s) : i # 1 => r[i] = s[i]
  BY <1>1, ReplacedAt
<1>3. s[1].op = "launch"
  BY <1>1, TailAt
<1> HIDE DEF r
<1>4. \A i \in 1..Len(r) :
          /\ r[i].op \in Starting \cup {"lock", "unlock", "done", "end", "join_checker", "join_watcher"} =>
                i # 1 /\ i \in 1..Len(s) /\ r[i] = s[i]
          /\ s[i].op # "launch" => i # 1
  BY <1>2, <1>3 DEF Starting
<1>5. StartsOne(r)
  BY <1>2, <1>4 DEF Orderly, StartsOne
<1>6. JoinsLast(r)
  <2> SUFFICES ASSUME NEW d \in 1..Len(r), NEW i \in 1..Len(r),
                      r[d].op = "done", r[i].op \in Starting
               PROVE  FALSE
    BY DEF JoinsLast
  <2>1. i \in 1..Len(s) /\ i # 1 /\ s[i].op \in Starting
    BY <1>4
  <2> QED
    BY <1>2, <1>3, <2>1 DEF Orderly, StartsOne, Starting
<1>7. Unlocks(r)
  <2> SUFFICES ASSUME NEW i \in 1..Len(r), r[i].op = "lock"
               PROVE  \E j \in 1..Len(r) : i < j /\ r[j].op = "unlock"
    BY DEF Unlocks
  <2>1. PICK j \in 1..Len(s) : i < j /\ s[j].op = "unlock"
    BY <1>2, <1>4 DEF Orderly, Unlocks
  <2>2. j \in 1..Len(r) /\ r[j] = s[j]
    BY <1>2, <1>4, <2>1
  <2> QED
    BY <2>1, <2>2
<1>8. EndsLast(r)
  <2> SUFFICES ASSUME NEW i \in 1..Len(r)
               PROVE  /\ r[i].op = "end" => i = Len(r)
                      /\ r[i].op = "done" => i < Len(r) /\ r[Len(r)].op = "end"
    BY DEF EndsLast
  <2>1. CASE i = 1
    BY <1>2, <2>1
  <2>2. CASE i # 1
    <3>1. Len(s) # 1 /\ r[Len(s)] = s[Len(s)] /\ r[i] = s[i]
      BY <1>2, <2>2
    <3> QED
      BY <1>2, <3>1 DEF Orderly, EndsLast
  <2> QED
    BY <2>1, <2>2
<1> QED
  BY <1>2, <1>5, <1>6, <1>7, <1>8 DEF Orderly, r

-------------------------------------------------------------------------------
(* The lists the loop makes for itself.                                    *)

(* What an effect amounts to: nothing but sends, joins and one start,      *)
(* which comes after the join of the thread it replaces.                   *)
EffectRight(e) ==
    /\ e \in Seq(Op)
    /\ \A i \in 1..Len(e) : e[i].op \in Starting \cup Joining \cup {"send"}
    /\ StartsOne(e)
    /\ \A i \in 1..Len(e) :
          /\ e[i].op = "launch" => Before(e, "join_watcher", e[i].svc, i)
          /\ e[i].op = "check"  => Before(e, "join_checker", e[i].svc, i)

(* Operations and the services they name.                                  *)
LEMMA OpsTyped ==
    /\ anyone \in Service
    /\ \A name \in OpName, svc \in Service :
          op(name, svc) \in Op /\ op(name, svc).op = name /\ op(name, svc).svc = svc
BY ChannelAssumption DEF anyone, op, Op

(* Two operations put before a list.                                       *)
LEMMA TwoAre ==
    ASSUME NEW a \in Op, NEW b \in Op, NEW t \in Seq(Op)
    PROVE  LET s == <<a, b>> \o t IN
           /\ s \in Seq(Op) /\ Len(s) = 2 + Len(t) /\ Len(t) \in Nat
           /\ s[1] = a /\ s[2] = b /\ \A i \in 1..Len(t) : s[2 + i] = t[i]
<1> DEFINE s == <<a, b>> \o t
<1>1. <<a, b>> \in Seq(Op) /\ Len(<<a, b>>) = 2 /\ <<a, b>>[1] = a /\ <<a, b>>[2] = b
  OBVIOUS
<1>2. /\ s \in Seq(Op) /\ Len(s) = Len(<<a, b>>) + Len(t) /\ Len(t) \in Nat
      /\ \A i \in 1..Len(<<a, b>>) : s[i] = <<a, b>>[i]
      /\ \A i \in 1..Len(t) : s[Len(<<a, b>>) + i] = t[i]
  BY <1>1, Concat
<1> HIDE DEF s
<1> QED
  BY <1>1, <1>2 DEF s

(* One operation put before a list.                                        *)
LEMMA OneIs ==
    ASSUME NEW a \in Op, NEW t \in Seq(Op)
    PROVE  LET s == <<a>> \o t IN
           /\ s \in Seq(Op) /\ Len(s) = 1 + Len(t) /\ Len(t) \in Nat
           /\ s[1] = a /\ \A i \in 1..Len(t) : s[1 + i] = t[i]
<1> DEFINE s == <<a>> \o t
<1>1. <<a>> \in Seq(Op) /\ Len(<<a>>) = 1 /\ <<a>>[1] = a
  OBVIOUS
<1>2. /\ s \in Seq(Op) /\ Len(s) = Len(<<a>>) + Len(t) /\ Len(t) \in Nat
      /\ \A i \in 1..Len(<<a>>) : s[i] = <<a>>[i]
      /\ \A i \in 1..Len(t) : s[Len(<<a>>) + i] = t[i]
  BY <1>1, Concat
<1> HIDE DEF s
<1> QED
  BY <1>1, <1>2 DEF s

(* The four operations of do_kill.                                         *)
LEMMA KillIs ==
    ASSUME NEW svc \in Service
    PROVE  /\ do_kill(svc) \in Seq(Op) /\ Len(do_kill(svc)) = 4
           /\ do_kill(svc)[1] = op("stop", svc) /\ do_kill(svc)[2] = op("join_checker", svc)
           /\ do_kill(svc)[3] = op("kill", svc) /\ do_kill(svc)[4] = op("join_watcher", svc)
<1> DEFINE a == op("stop", svc)
           b == op("join_checker", svc)
           t == <<op("kill", svc), op("join_watcher", svc)>>
           s == do_kill(svc)
<1>1. /\ op("stop", svc) \in Op /\ op("join_checker", svc) \in Op
      /\ op("kill", svc) \in Op /\ op("join_watcher", svc) \in Op
  BY OpsTyped DEF OpName, Joining
<1>2. /\ t \in Seq(Op) /\ Len(t) = 2 /\ t[1] = op("kill", svc) /\ t[2] = op("join_watcher", svc)
  BY <1>1
<1>3. s = <<a, b>> \o t /\ a \in Op /\ b \in Op
  BY <1>1 DEF do_kill, do_stop_health
<1> HIDE DEF a, b, s, t
<1>4. /\ s \in Seq(Op) /\ Len(s) = 2 + Len(t) /\ s[1] = a /\ s[2] = b
      /\ \A i \in 1..Len(t) : s[2 + i] = t[i]
  <2>1. t \in Seq(Op) /\ a \in Op /\ b \in Op
    BY <1>2, <1>3
  <2>2. /\ <<a, b>> \o t \in Seq(Op) /\ Len(<<a, b>> \o t) = 2 + Len(t)
        /\ (<<a, b>> \o t)[1] = a /\ (<<a, b>> \o t)[2] = b
        /\ \A i \in 1..Len(t) : (<<a, b>> \o t)[2 + i] = t[i]
    BY <2>1, TwoAre
  <2> QED
    BY <1>3, <2>2
<1>5. Len(s) = 4 /\ s[3] = t[1] /\ s[4] = t[2]
  BY <1>2, <1>4
<1> QED
  BY <1>2, <1>4, <1>5 DEF a, b, s

(* The six operations of do_spawn: a report, do_kill, and the launch.      *)
LEMMA SpawnIs ==
    ASSUME NEW svc \in Service
    PROVE  LET s == do_spawn(svc) IN
           /\ s \in Seq(Op) /\ Len(s) = 6 /\ s[1] = op("send", anyone)
           /\ s[2] = op("stop", svc) /\ s[3] = op("join_checker", svc)
           /\ s[4] = op("kill", svc) /\ s[5] = op("join_watcher", svc)
           /\ s[6] = op("launch", svc)
<1> DEFINE k == do_kill(svc)
           h == self_send \o k
           l == <<op("launch", svc)>>
           s == h \o l
<1>1. op("send", anyone) \in Op /\ op("launch", svc) \in Op
  BY OpsTyped DEF OpName, Starting
<1>2. l \in Seq(Op) /\ Len(l) = 1 /\ l[1] = op("launch", svc)
  BY <1>1
<1>3. k \in Seq(Op) /\ Len(k) = 4
  BY KillIs
<1>4. self_send \o k = <<op("send", anyone)>> \o k
  BY DEF self_send
<1>5. s = do_spawn(svc)
  BY DEF do_spawn
<1> HIDE DEF l, k
<1> DEFINE a == op("send", anyone)
<1>4a. h = <<a>> \o k /\ a \in Op
  BY <1>1, <1>4
<1> HIDE DEF h, a
<1>4b. /\ h \in Seq(Op) /\ Len(h) = 1 + Len(k) /\ h[1] = a
       /\ \A i \in 1..Len(k) : h[1 + i] = k[i]
  BY <1>3, <1>4a, OneIs
<1>6. /\ h \in Seq(Op) /\ Len(h) = 1 + Len(k) /\ h[1] = op("send", anyone)
      /\ \A i \in 1..Len(k) : h[1 + i] = k[i]
  BY <1>4b DEF a
<1>7. /\ s \in Seq(Op) /\ Len(s) = Len(h) + Len(l)
      /\ \A i \in 1..Len(h) : s[i] = h[i]
      /\ \A i \in 1..Len(l) : s[Len(h) + i] = l[i]
  BY <1>2, <1>6, Concat
<1> HIDE DEF s
<1>8. /\ h[2] = k[1] /\ h[3] = k[2] /\ h[4] = k[3] /\ h[5] = k[4] /\ Len(h) = 5
  BY <1>3, <1>6
<1>9. /\ s[1] = h[1] /\ s[2] = h[2] /\ s[3] = h[3] /\ s[4] = h[4] /\ s[5] = h[5]
      /\ s[6] = l[1] /\ Len(s) = 6
  BY <1>2, <1>7, <1>8
<1>10. /\ k[1] = op("stop", svc) /\ k[2] = op("join_checker", svc)
       /\ k[3] = op("kill", svc) /\ k[4] = op("join_watcher", svc)
  BY KillIs DEF k
<1> QED
  BY <1>2, <1>5, <1>6, <1>7, <1>8, <1>9, <1>10

(* The three operations of start_health_check.                             *)
LEMMA CheckIs ==
    ASSUME NEW svc \in Service
    PROVE  LET s == start_health_check(svc) IN
           /\ s \in Seq(Op) /\ Len(s) = 3
           /\ s[1] = op("stop", svc) /\ s[2] = op("join_checker", svc) /\ s[3] = op("check", svc)
<1> DEFINE a == op("stop", svc)
           b == op("join_checker", svc)
           l == <<op("check", svc)>>
           s == start_health_check(svc)
<1>1. op("stop", svc) \in Op /\ op("join_checker", svc) \in Op /\ op("check", svc) \in Op
  BY OpsTyped DEF OpName, Starting, Joining
<1>2. l \in Seq(Op) /\ Len(l) = 1 /\ l[1] = op("check", svc)
  BY <1>1
<1>3. s = <<a, b>> \o l /\ a \in Op /\ b \in Op
  BY <1>1 DEF start_health_check, do_stop_health
<1> HIDE DEF a, b, l, s
<1>4. /\ s \in Seq(Op) /\ Len(s) = 2 + Len(l) /\ s[1] = a /\ s[2] = b
      /\ \A i \in 1..Len(l) : s[2 + i] = l[i]
  <2>1. l \in Seq(Op) /\ a \in Op /\ b \in Op
    BY <1>2, <1>3
  <2>2. /\ <<a, b>> \o l \in Seq(Op) /\ Len(<<a, b>> \o l) = 2 + Len(l)
        /\ (<<a, b>> \o l)[1] = a /\ (<<a, b>> \o l)[2] = b
        /\ \A i \in 1..Len(l) : (<<a, b>> \o l)[2 + i] = l[i]
    BY <2>1, TwoAre
  <2> QED
    BY <1>3, <2>2
<1> QED
  BY <1>2, <1>4 DEF s, a, b

(* Every effect joins the thread it replaces before it starts another.     *)
LEMMA EffectsRight == \A e \in Effects : EffectRight(e)
<1> USE DEF Starting, Joining, OpName
<1>1. EffectRight(<<>>)
  BY DEF EffectRight, StartsOne
<1>2. EffectRight(self_send)
  BY OpsTyped DEF EffectRight, StartsOne, self_send
<1>3. EffectRight(self_send \o self_send)
  <2> DEFINE s == self_send \o self_send
  <2>1. op("send", anyone) \in Op /\ op("send", anyone).op = "send"
    BY OpsTyped
  <2>2. /\ self_send \in Seq(Op) /\ Len(self_send) = 1 /\ self_send[1] = op("send", anyone)
        /\ s = <<op("send", anyone)>> \o self_send
    BY <2>1 DEF self_send
  <2> HIDE DEF s
  <2>3. /\ s \in Seq(Op) /\ Len(s) = 2 /\ s[1] = op("send", anyone) /\ s[2] = self_send[1]
    BY <2>1, <2>2, OneIs
  <2>4. \A i \in 1..Len(s) : s[i].op = "send"
    BY <2>1, <2>2, <2>3
  <2>5. EffectRight(s)
    BY <2>3, <2>4 DEF EffectRight, StartsOne
  <2> QED
    BY <2>5 DEF s
<1>4. ASSUME NEW svc \in Service
      PROVE  EffectRight(do_stop_health(svc)) /\ EffectRight(do_kill(svc))
  <2>1. EffectRight(do_stop_health(svc))
    BY OpsTyped DEF EffectRight, StartsOne, do_stop_health
  <2> DEFINE k == do_kill(svc)
  <2>2. /\ k \in Seq(Op) /\ Len(k) = 4 /\ k[1].op = "stop" /\ k[2].op = "join_checker"
        /\ k[3].op = "kill" /\ k[4].op = "join_watcher"
    BY KillIs, OpsTyped
  <2> HIDE DEF k
  <2>3. \A i \in 1..Len(k) : k[i].op \in Joining
    BY <2>2
  <2>4. EffectRight(k)
    BY <2>2, <2>3 DEF EffectRight, StartsOne
  <2> QED
    BY <2>1, <2>4 DEF k
<1>5. ASSUME NEW svc \in Service
      PROVE  EffectRight(do_spawn(svc))
  <2> DEFINE s == do_spawn(svc)
  <2>1. /\ s \in Seq(Op) /\ Len(s) = 6 /\ s[1].op = "send" /\ s[2].op = "stop"
        /\ s[3].op = "join_checker" /\ s[4].op = "kill" /\ Joins(s, "join_watcher", svc, 5)
        /\ s[6].op = "launch" /\ s[6].svc = svc
    BY SpawnIs, OpsTyped DEF Joins
  <2> HIDE DEF s
  <2>2. \A i \in 1..Len(s) :
            i = 6 \/ s[i].op \in {"send", "stop", "join_checker", "kill", "join_watcher"}
    BY <2>1 DEF Joins
  <2>3. Before(s, "join_watcher", svc, 6)
    BY <2>1 DEF Before
  <2>4. EffectRight(s)
    BY <2>1, <2>2, <2>3 DEF EffectRight, StartsOne
  <2> QED
    BY <2>4 DEF s
<1>6. ASSUME NEW svc \in Service
      PROVE  EffectRight(start_health_check(svc))
  <2> DEFINE s == start_health_check(svc)
  <2>1. /\ s \in Seq(Op) /\ Len(s) = 3 /\ s[1].op = "stop"
        /\ Joins(s, "join_checker", svc, 2) /\ s[3].op = "check" /\ s[3].svc = svc
    BY CheckIs, OpsTyped DEF Joins
  <2> HIDE DEF s
  <2>2. \A i \in 1..Len(s) : i = 3 \/ s[i].op \in {"stop", "join_checker"}
    BY <2>1 DEF Joins
  <2>3. Before(s, "join_checker", svc, 3)
    BY <2>1 DEF Before
  <2>4. EffectRight(s)
    BY <2>1, <2>2, <2>3 DEF EffectRight, StartsOne
  <2> QED
    BY <2>4 DEF s
<1> QED
  BY <1>1, <1>2, <1>3, <1>4, <1>5, <1>6 DEF Effects, kill_effect

(* What follows an effect gives the mutex back, and if it announces the    *)
(* end then after the threads of every service, and before the end.        *)
Follows(r) ==
    /\ r \in Seq(Op)
    /\ \A i \in 1..Len(r) : r[i].op \in Joining \cup {"unlock", "done", "end"}
    /\ EndsLast(r) /\ \E i \in 1..Len(r) : r[i].op = "unlock"
    /\ \A i \in 1..Len(r) : r[i].op = "done" =>
          \A svc \in Service, name \in {"join_checker", "join_watcher"} : Before(r, name, svc, i)

(* After most events only the mutex is given back.                         *)
LEMMA UnlockFollows == Follows(unlock)
<1>1. unlock \in Seq(Op) /\ Len(unlock) = 1 /\ unlock[1].op = "unlock"
  BY OpsTyped DEF unlock, OpName
<1> QED
  BY <1>1 DEF Follows, EndsLast

(* Whatever the order, every service has both its threads joined.          *)
LEMMA KillsAll ==
    ASSUME NEW order \in key_orders
    PROVE  LET k == kill_all(order) IN
           /\ k \in Seq(Op) /\ \A i \in 1..Len(k) : k[i].op \in Joining
           /\ \A svc \in Service, name \in {"join_checker", "join_watcher"} :
                 \E j \in 1..Len(k) : Joins(k, name, svc, j)
<1> DEFINE n == Cardinality(Service)
           k == kill_all(order)
<1>1. n \in Nat
  BY ChannelAssumption, FS_CardinalityType
<1>2. /\ order \in [1..n -> Service]
      /\ \A svc \in Service : \E q \in 1..n : order[q] = svc
  BY DEF key_orders
<1>3. ASSUME NEW svc \in Service, NEW r \in 1..4
      PROVE  do_kill(svc)[r] \in Op /\ do_kill(svc)[r].op \in Joining
  <2>1. r = 1 \/ r = 2 \/ r = 3 \/ r = 4
    OBVIOUS
  <2>2. /\ op("stop", svc) \in Op /\ op("join_checker", svc) \in Op
        /\ op("kill", svc) \in Op /\ op("join_watcher", svc) \in Op
        /\ op("stop", svc).op = "stop" /\ op("join_checker", svc).op = "join_checker"
        /\ op("kill", svc).op = "kill" /\ op("join_watcher", svc).op = "join_watcher"
    BY OpsTyped DEF OpName, Joining
  <2> QED
    BY <2>1, <2>2, KillIs DEF Joining
<1>4. k = [i \in 1..4 * n |-> do_kill(order[((i - 1) \div 4) + 1])[((i - 1) % 4) + 1]]
  BY DEF kill_all
<1> HIDE DEF n, k
<1>5. ASSUME NEW i \in 1..4 * n
      PROVE  k[i] \in Op /\ k[i].op \in Joining
  <2> DEFINE q == ((i - 1) \div 4) + 1
             r == ((i - 1) % 4) + 1
  <2>1. q \in 1..n /\ r \in 1..4
    BY <1>1
  <2>2. k[i] = do_kill(order[q])[r]
    BY <1>4
  <2>3. order[q] \in Service
    BY <1>2, <2>1
  <2> HIDE DEF q, r
  <2> QED
    BY <1>3, <2>1, <2>2, <2>3
<1>6. k \in Seq(Op) /\ Len(k) = 4 * n
  <2>1. k \in [1..4 * n -> Op] /\ 4 * n \in Nat
    BY <1>1, <1>4, <1>5
  <2> QED
    BY <2>1
<1>7. ASSUME NEW svc \in Service
      PROVE  /\ \E j \in 1..Len(k) : Joins(k, "join_checker", svc, j)
             /\ \E j \in 1..Len(k) : Joins(k, "join_watcher", svc, j)
  <2>1. PICK q \in 1..n : order[q] = svc
    BY <1>2
  <2>2. /\ 4 * q - 2 \in 1..4 * n /\ 4 * q \in 1..4 * n
        /\ (((4 * q - 2) - 1) \div 4) + 1 = q /\ (((4 * q - 2) - 1) % 4) + 1 = 2
        /\ ((4 * q - 1) \div 4) + 1 = q /\ ((4 * q - 1) % 4) + 1 = 4
    BY <1>1
  <2>3. k[4 * q - 2] = do_kill(svc)[2] /\ k[4 * q] = do_kill(svc)[4]
    BY <1>4, <2>1, <2>2
  <2>4. Joins(k, "join_checker", svc, 4 * q - 2) /\ Joins(k, "join_watcher", svc, 4 * q)
    <3>1. /\ k[4 * q - 2] = op("join_checker", svc) /\ k[4 * q] = op("join_watcher", svc)
      BY <2>3, KillIs
    <3>2. /\ op("join_checker", svc).op = "join_checker" /\ op("join_checker", svc).svc = svc
          /\ op("join_watcher", svc).op = "join_watcher" /\ op("join_watcher", svc).svc = svc
      BY OpsTyped DEF OpName, Joining
    <3> QED
      BY <3>1, <3>2 DEF Joins
  <2> QED
    BY <1>6, <2>2, <2>4
<1> QED
  BY <1>5, <1>6, <1>7 DEF k

(* After ShutdownAll all threads are joined, the end is announced and the  *)
(* mutex given back, and then the loop ends.                               *)
LEMMA ShutdownFollows ==
    ASSUME NEW order \in key_orders
    PROVE  Follows(shutdown_and_join(order))
<1> DEFINE k == kill_all(order)
           a == k \o <<op("done", anyone)>>
           b == a \o unlock
           r == b \o <<op("end", anyone)>>
<1>1. /\ k \in Seq(Op) /\ \A i \in 1..Len(k) : k[i].op \in Joining
      /\ \A svc \in Service, name \in {"join_checker", "join_watcher"} :
            \E j \in 1..Len(k) : Joins(k, name, svc, j)
  BY KillsAll
<1>2. r = shutdown_and_join(order)
  BY DEF shutdown_and_join, kills_first
<1>3. /\ <<op("done", anyone)>> \in Seq(Op) /\ Len(<<op("done", anyone)>>) = 1
      /\ <<op("done", anyone)>>[1].op = "done"
      /\ <<op("end", anyone)>> \in Seq(Op) /\ Len(<<op("end", anyone)>>) = 1
      /\ <<op("end", anyone)>>[1].op = "end"
      /\ unlock \in Seq(Op) /\ Len(unlock) = 1 /\ unlock[1].op = "unlock"
  BY OpsTyped DEF unlock, OpName
<1> DEFINE n == Len(k)
           d == <<op("done", anyone)>>
           e == <<op("end", anyone)>>
<1> HIDE DEF k
<1>4. /\ a \in Seq(Op) /\ n \in Nat /\ Len(a) = n + 1 /\ a[n + 1].op = "done"
      /\ \A i \in 1..n : a[i] = k[i]
  <2>1. d \in Seq(Op) /\ Len(d) = 1 /\ d[1].op = "done" /\ a = k \o d
    BY <1>3
  <2> HIDE DEF d
  <2>2. /\ k \o d \in Seq(Op) /\ Len(k) \in Nat /\ Len(k \o d) = Len(k) + Len(d)
        /\ \A i \in 1..Len(k) : (k \o d)[i] = k[i]
        /\ \A i \in 1..Len(d) : (k \o d)[Len(k) + i] = d[i]
    BY <1>1, <2>1, Concat
  <2> HIDE DEF a
  <2> QED
    BY <2>1, <2>2
<1> HIDE DEF a
<1>5. /\ b \in Seq(Op) /\ Len(b) = n + 2 /\ b[n + 2].op = "unlock"
      /\ \A i \in 1..n + 1 : b[i] = a[i]
  <2>1. /\ a \o unlock \in Seq(Op) /\ Len(a \o unlock) = Len(a) + Len(unlock)
        /\ \A i \in 1..Len(a) : (a \o unlock)[i] = a[i]
        /\ \A i \in 1..Len(unlock) : (a \o unlock)[Len(a) + i] = unlock[i]
    BY <1>3, <1>4, Concat
  <2> HIDE DEF n
  <2>2. Len(a) + 1 = n + 2 /\ 1 \in 1..Len(unlock)
    BY <1>3, <1>4
  <2> QED
    BY <1>3, <1>4, <2>1, <2>2
<1> HIDE DEF b
<1>6. /\ r \in Seq(Op) /\ Len(r) = n + 3 /\ r[n + 3].op = "end"
      /\ \A i \in 1..n + 2 : r[i] = b[i]
  <2>1. e \in Seq(Op) /\ Len(e) = 1 /\ e[1].op = "end" /\ r = b \o e
    BY <1>3
  <2> HIDE DEF e
  <2>2. /\ b \o e \in Seq(Op) /\ Len(b \o e) = Len(b) + Len(e)
        /\ \A i \in 1..Len(b) : (b \o e)[i] = b[i]
        /\ \A i \in 1..Len(e) : (b \o e)[Len(b) + i] = e[i]
    BY <1>5, <2>1, Concat
  <2> HIDE DEF n
  <2>3. Len(b) + 1 = n + 3 /\ 1 \in 1..Len(e)
    BY <1>4, <1>5, <2>1
  <2> HIDE DEF r
  <2> QED
    BY <1>4, <1>5, <2>1, <2>2, <2>3
<1> HIDE DEF r, n
<1>7. ASSUME NEW i \in 1..Len(r)
      PROVE  \/ i \in 1..n /\ r[i] = k[i] /\ r[i].op \in Joining
             \/ i = n + 1 /\ r[i].op = "done"
             \/ i = n + 2 /\ r[i].op = "unlock"
             \/ i = n + 3 /\ r[i].op = "end"
  <2>1. i \in 1..n \/ i = n + 1 \/ i = n + 2 \/ i = n + 3
    BY <1>4, <1>6
  <2>2. CASE i \in 1..n
    <3>1. i \in 1..n + 1 /\ i \in 1..n + 2
      BY <1>4, <2>2
    <3>2. r[i] = k[i]
      BY <1>4, <1>5, <1>6, <2>2, <3>1
    <3> QED
      BY <1>1, <2>2, <3>2 DEF n
  <2>3. CASE i = n + 1
    <3>1. n + 1 \in 1..n + 1 /\ n + 1 \in 1..n + 2
      BY <1>4
    <3> QED
      BY <1>4, <1>5, <1>6, <2>3, <3>1
  <2>4. CASE i = n + 2
    <3>1. n + 2 \in 1..n + 2
      BY <1>4
    <3> QED
      BY <1>5, <1>6, <2>4, <3>1
  <2> QED
    BY <1>6, <2>1, <2>2, <2>3, <2>4
<1>8. Len(r) = n + 3 /\ n \in Nat
  BY <1>4, <1>6
<1>9. EndsLast(r)
  BY <1>6, <1>7, <1>8 DEF EndsLast, Joining
<1>10. \E i \in 1..Len(r) : r[i].op = "unlock"
  <2>1. n + 2 \in 1..Len(r) /\ n + 2 \notin 1..n /\ n + 2 # n + 1 /\ n + 2 # n + 3
    BY <1>8
  <2> QED
    BY <1>7, <2>1
<1>11. ASSUME NEW i \in 1..Len(r), r[i].op = "done",
              NEW svc \in Service, NEW name \in {"join_checker", "join_watcher"}
       PROVE  Before(r, name, svc, i)
  <2>1. i = n + 1
    BY <1>7, <1>11 DEF Joining
  <2>2. PICK j \in 1..n : Joins(k, name, svc, j)
    BY <1>1, <1>11 DEF n
  <2>3. j \in 1..Len(r) /\ j < i /\ r[j] = k[j]
    BY <1>7, <1>8, <2>1
  <2> QED
    BY <2>2, <2>3 DEF Before, Joins
<1>12. Follows(r)
  BY <1>6, <1>7, <1>9, <1>10, <1>11 DEF Follows
<1> QED
  BY <1>2, <1>12

(* The whole list for an event: the effect, a copy of the state under the  *)
(* mutex, and what follows.                                                *)
Fresh(s) ==
    /\ Orderly(s) /\ s # <<>> /\ \E i \in 1..Len(s) : s[i].op = "unlock"
    /\ \A i \in 1..Len(s) :
          /\ s[i].op = "launch" => Before(s, "join_watcher", s[i].svc, i)
          /\ s[i].op = "check"  => Before(s, "join_checker", s[i].svc, i)
          /\ s[i].op = "done" =>
                \A svc \in Service, name \in {"join_checker", "join_watcher"} :
                    Before(s, name, svc, i)

(* An effect and what follows it make a list in order.                     *)
LEMMA ListsFresh ==
    ASSUME NEW e, EffectRight(e), NEW r, Follows(r)
    PROVE  Fresh(e \o lock \o r)
<1> DEFINE n == Len(e)
           h == e \o lock
           s == h \o r
<1>1. lock \in Seq(Op) /\ Len(lock) = 1 /\ lock[1].op = "lock"
  BY OpsTyped DEF lock, OpName
<1>2. e \in Seq(Op) /\ r \in Seq(Op)
  BY DEF EffectRight, Follows
<1>3. /\ h \in Seq(Op) /\ n \in Nat /\ Len(h) = n + 1 /\ h[n + 1].op = "lock"
      /\ \A i \in 1..n : h[i] = e[i]
  <2>1. /\ e \o lock \in Seq(Op) /\ Len(e) \in Nat /\ Len(e \o lock) = Len(e) + Len(lock)
        /\ \A i \in 1..Len(e) : (e \o lock)[i] = e[i]
        /\ \A i \in 1..Len(lock) : (e \o lock)[Len(e) + i] = lock[i]
    BY <1>1, <1>2, Concat
  <2>2. 1 \in 1..Len(lock)
    BY <1>1
  <2> QED
    BY <1>1, <2>1, <2>2
<1> HIDE DEF h
<1>4. /\ s \in Seq(Op) /\ Len(r) \in Nat /\ Len(s) = Len(h) + Len(r)
      /\ \A i \in 1..Len(h) : s[i] = h[i]
      /\ \A i \in 1..Len(r) : s[Len(h) + i] = r[i]
      /\ \A i \in 1..Len(h) + Len(r) :
            \/ i \in 1..Len(h) /\ s[i] = h[i]
            \/ \E j \in 1..Len(r) : i = Len(h) + j /\ s[i] = r[j]
  BY <1>2, <1>3, Concat
<1> HIDE DEF s, n
<1>5. Len(s) = n + 1 + Len(r) /\ n \in Nat /\ Len(r) \in Nat
  BY <1>3, <1>4
(* The three parts, by their places. *)
<1>6. \A i \in 1..n : i \in 1..Len(s) /\ s[i] = e[i]
  <2> SUFFICES ASSUME NEW i \in 1..n PROVE i \in 1..Len(s) /\ s[i] = e[i]
    OBVIOUS
  <2>1. i \in 1..Len(h) /\ i \in 1..Len(s)
    BY <1>3, <1>5
  <2> QED
    BY <1>3, <1>4, <2>1
<1>7. \A i \in 1..Len(r) : n + 1 + i \in 1..Len(s) /\ s[n + 1 + i] = r[i]
  BY <1>3, <1>4, <1>5
<1>8. ASSUME NEW i \in 1..Len(s)
      PROVE  \/ i \in 1..n /\ s[i] = e[i] /\ e[i].op \in Starting \cup Joining \cup {"send"}
             \/ i = n + 1 /\ s[i].op = "lock"
             \/ \E j \in 1..Len(r) : /\ i = n + 1 + j /\ s[i] = r[j]
                                    /\ r[j].op \in Joining \cup {"unlock", "done", "end"}
  <2>1. CASE i \in 1..n
    BY <1>6, <2>1 DEF EffectRight, n
  <2>2. CASE i = n + 1
    <3>1. n + 1 \in 1..Len(h)
      BY <1>3
    <3> QED
      BY <1>3, <1>4, <2>2, <3>1
  <2>3. CASE i \notin 1..n /\ i # n + 1
    <3>1. i - (n + 1) \in 1..Len(r) /\ i = n + 1 + (i - (n + 1))
      BY <1>5, <2>3
    <3>2. PICK j \in 1..Len(r) : i = n + 1 + j
      BY <3>1
    <3>3. s[i] = r[j]
      BY <1>7, <3>2
    <3> QED
      BY <3>2, <3>3 DEF Follows
  <2> QED
    BY <2>1, <2>2, <2>3
<1>9. ASSUME NEW i \in 1..Len(s), s[i].op \in Starting
      PROVE  i \in 1..n /\ s[i] = e[i]
  BY <1>8, <1>9 DEF Starting, Joining
<1>10. ASSUME NEW i \in 1..Len(s), s[i].op \in {"done", "end"}
       PROVE  \E j \in 1..Len(r) : i = n + 1 + j /\ s[i] = r[j]
  BY <1>8, <1>10 DEF Starting, Joining
<1>11. ASSUME NEW name, NEW svc, NEW i \in 1..n, Before(e, name, svc, i)
       PROVE  Before(s, name, svc, i)
  <2>1. PICK j \in 1..Len(e) : j < i /\ Joins(e, name, svc, j)
    BY <1>11 DEF Before
  <2>2. j \in 1..Len(s) /\ s[j] = e[j]
    BY <1>6 DEF n
  <2> QED
    BY <2>1, <2>2 DEF Before, Joins
<1>12. ASSUME NEW j \in 1..Len(r), r[j].op = "done", NEW svc \in Service,
              NEW name \in {"join_checker", "join_watcher"}
       PROVE  \E m \in 1..Len(s) : n + 1 < m /\ m < n + 1 + j /\ Joins(s, name, svc, m)
  <2>1. PICK m \in 1..Len(r) : m < j /\ Joins(r, name, svc, m)
    BY <1>12 DEF Follows, Before
  <2>2. /\ n + 1 + m \in 1..Len(s) /\ s[n + 1 + m] = r[m]
        /\ n + 1 < n + 1 + m /\ n + 1 + m < n + 1 + j
    BY <1>5, <1>7, <2>1
  <2> QED
    BY <2>1, <2>2 DEF Joins
<1>13. StartsOne(s)
  <2> SUFFICES ASSUME NEW i \in 1..Len(s), NEW j \in 1..Len(s),
                      s[i].op \in Starting, s[j].op \in Starting
               PROVE  i = j
    BY DEF StartsOne
  <2>1. i \in 1..Len(e) /\ j \in 1..Len(e) /\ e[i].op \in Starting /\ e[j].op \in Starting
    BY <1>9 DEF n
  <2> QED
    BY <2>1 DEF EffectRight, StartsOne
<1>14. JoinsLast(s)
  <2> SUFFICES ASSUME NEW d \in 1..Len(s), NEW i \in 1..Len(s),
                      s[d].op = "done", s[i].op \in Starting
               PROVE  /\ i < d
                      /\ \A svc \in Service, name \in {"join_checker", "join_watcher"} :
                            \E m \in 1..Len(s) : i < m /\ m < d /\ Joins(s, name, svc, m)
    BY DEF JoinsLast
  <2>1. PICK j \in 1..Len(r) : d = n + 1 + j /\ s[d] = r[j]
    BY <1>10
  <2>2. i \in 1..n
    BY <1>9
  <2>3. ASSUME NEW svc \in Service, NEW name \in {"join_checker", "join_watcher"}
        PROVE  \E m \in 1..Len(s) : i < m /\ m < d /\ Joins(s, name, svc, m)
    <3>1. PICK m \in 1..Len(s) : n + 1 < m /\ m < n + 1 + j /\ Joins(s, name, svc, m)
      BY <1>12, <2>1, <2>3
    <3>2. i < m /\ m < d
      BY <1>5, <2>1, <2>2, <3>1
    <3> QED
      BY <3>1, <3>2
  <2>4. i < d
    BY <1>5, <2>1, <2>2
  <2> QED
    BY <2>3, <2>4
<1>15. PICK u \in 1..Len(r) : r[u].op = "unlock"
  BY DEF Follows
<1>16. n + 1 + u \in 1..Len(s) /\ s[n + 1 + u].op = "unlock"
  BY <1>7, <1>15
<1>17. Unlocks(s)
  <2> SUFFICES ASSUME NEW i \in 1..Len(s), s[i].op = "lock"
               PROVE  \E j \in 1..Len(s) : i < j /\ s[j].op = "unlock"
    BY DEF Unlocks
  <2>1. i = n + 1
    BY <1>8 DEF Starting, Joining
  <2>2. i < n + 1 + u
    BY <1>5, <2>1
  <2> QED
    BY <1>16, <2>2
<1>18. EndsLast(s)
  <2> SUFFICES ASSUME NEW i \in 1..Len(s), s[i].op \in {"done", "end"}
               PROVE  /\ s[i].op = "end" => i = Len(s)
                      /\ s[i].op = "done" => i < Len(s) /\ s[Len(s)].op = "end"
    BY DEF EndsLast
  <2>1. PICK j \in 1..Len(r) : i = n + 1 + j /\ s[i] = r[j]
    BY <1>10
  <2>2. /\ r[j].op = "end" => j = Len(r)
        /\ r[j].op = "done" => j < Len(r) /\ r[Len(r)].op = "end"
    BY DEF Follows, EndsLast
  <2>3. Len(r) \in 1..Len(r) /\ Len(s) = n + 1 + Len(r)
    BY <1>5
  <2>4. s[Len(s)] = r[Len(r)]
    BY <1>7, <2>3
  <2> QED
    BY <1>5, <2>1, <2>2, <2>3, <2>4
<1>19. ASSUME NEW i \in 1..Len(s)
       PROVE  /\ s[i].op = "launch" => Before(s, "join_watcher", s[i].svc, i)
              /\ s[i].op = "check"  => Before(s, "join_checker", s[i].svc, i)
              /\ s[i].op = "done" =>
                    \A svc \in Service, name \in {"join_checker", "join_watcher"} :
                        Before(s, name, svc, i)
  <2>1. CASE s[i].op = "launch"
    <3>1. i \in 1..n /\ s[i] = e[i]
      BY <1>9, <2>1 DEF Starting
    <3>2. Before(e, "join_watcher", e[i].svc, i)
      BY <2>1, <3>1 DEF EffectRight, n
    <3> QED
      BY <1>11, <2>1, <3>1, <3>2
  <2>2. CASE s[i].op = "check"
    <3>1. i \in 1..n /\ s[i] = e[i]
      BY <1>9, <2>2 DEF Starting
    <3>2. Before(e, "join_checker", e[i].svc, i)
      BY <2>2, <3>1 DEF EffectRight, n
    <3> QED
      BY <1>11, <2>2, <3>1, <3>2
  <2>3. CASE s[i].op = "done"
    <3>1. PICK j \in 1..Len(r) : i = n + 1 + j /\ s[i] = r[j]
      BY <1>10, <2>3
    <3> QED
      BY <1>12, <2>3, <3>1 DEF Before
  <2> QED
    BY <2>1, <2>2, <2>3
<1>20. s # <<>>
  BY <1>5
<1>21. Fresh(s)
  BY <1>4, <1>13, <1>14, <1>16, <1>17, <1>18, <1>19, <1>20 DEF Fresh, Orderly
<1> QED
  BY <1>21 DEF s, h

-------------------------------------------------------------------------------
(* Steps.                                                                  *)
Ordered == Orderly(plan) /\ StartsFree /\ AllJoined /\ Quiet /\ Held /\ Closed

(* The first operation is done.  It may start the thread it names, takes   *)
(* away the one it joins, and leaves the others as free as they were.      *)
LEMMA Advance ==
    ASSUME Ordered, done \in BOOLEAN, ended \in BOOLEAN, plan # <<>>, plan' = Tail(plan),
           \A svc \in Service :
               /\ watcher[svc] = "none" =>
                     watcher'[svc] = "none" \/ Joins(plan, "launch", svc, 1)
               /\ checker[svc] = "none" =>
                     checker'[svc] = "none" \/ Joins(plan, "check", svc, 1)
               /\ Joins(plan, "join_watcher", svc, 1) => watcher'[svc] = "none"
               /\ Joins(plan, "join_checker", svc, 1) => checker'[svc] = "none",
           done' => done \/ plan[1].op = "done",
           ended' <=> ended \/ plan[1].op = "end",
           mutex' = "loop" => plan[1].op = "lock" \/ (mutex = "loop" /\ plan[1].op # "unlock")
    PROVE  Ordered'
<1>1. plan \in Seq(Op)
  BY DEF Ordered, Orderly
<1>2. /\ plan' \in Seq(Op) /\ Len(plan) \in Nat \ {0} /\ Len(plan') = Len(plan) - 1
      /\ 1 \in 1..Len(plan) /\ plan[1] \in Op
      /\ \A i \in 1..Len(plan') : plan'[i] = plan[i + 1] /\ i + 1 \in 1..Len(plan) /\ i \in Nat
      /\ \A i \in 2..Len(plan) : i - 1 \in 1..Len(plan') /\ plan'[i - 1] = plan[i]
  BY <1>1, TailAt
<1>3. Orderly(plan')
  BY TailOrderly DEF Ordered
<1>4. \A n \in Nat : \A name, svc :
          Before(plan, name, svc, n + 1) => Joins(plan, name, svc, 1) \/ Before(plan', name, svc, n)
  BY <1>1, BeforeTail
<1>5. \A name, svc : ~Before(plan, name, svc, 1)
  BY DEF Before
<1>6. ASSUME NEW svc \in Service, NEW d \in 1..Len(plan'), plan[d + 1].op = "done",
             plan[1].op \in Starting, NEW name \in {"join_checker", "join_watcher"}
      PROVE  Before(plan', name, svc, d)
  <2>1. PICK j \in 1..Len(plan) : 1 < j /\ j < d + 1 /\ Joins(plan, name, svc, j)
    BY <1>2, <1>6 DEF Ordered, Orderly, JoinsLast
  <2>2. j \in 2..Len(plan) /\ j - 1 < d
    BY <1>2, <2>1
  <2> QED
    BY <1>2, <2>1, <2>2 DEF Before, Joins
<1>7. ASSUME NEW i \in 1..Len(plan')
      PROVE  /\ plan'[i].op = "launch" =>
                    watcher'[plan'[i].svc] = "none" \/ Before(plan', "join_watcher", plan'[i].svc, i)
             /\ plan'[i].op = "check" =>
                    checker'[plan'[i].svc] = "none" \/ Before(plan', "join_checker", plan'[i].svc, i)
  <2> DEFINE svc == plan'[i].svc
  <2>1. /\ plan'[i] = plan[i + 1] /\ i + 1 \in 1..Len(plan) /\ i \in Nat /\ i + 1 # 1
        /\ svc \in Service
    <3>1. plan'[i] = plan[i + 1] /\ i + 1 \in 1..Len(plan) /\ i \in Nat /\ i + 1 # 1
      BY <1>2
    <3>2. plan[i + 1] \in Op
      BY <1>1, <3>1
    <3> QED
      BY <3>1, <3>2 DEF Op
  <2>2. plan'[i].op \in Starting => plan[1].op \notin Starting
    BY <1>2, <2>1 DEF Ordered, Orderly, StartsOne
  <2>3. CASE plan'[i].op = "launch"
    <3>1. watcher[svc] = "none" \/ Before(plan, "join_watcher", svc, i + 1)
      BY <2>1, <2>3 DEF Ordered, StartsFree
    <3>2. ~Joins(plan, "launch", svc, 1)
      BY <2>2, <2>3 DEF Joins, Starting
    <3> QED
      BY <1>4, <2>1, <2>3, <3>1, <3>2
  <2>4. CASE plan'[i].op = "check"
    <3>1. checker[svc] = "none" \/ Before(plan, "join_checker", svc, i + 1)
      BY <2>1, <2>4 DEF Ordered, StartsFree
    <3>2. ~Joins(plan, "check", svc, 1)
      BY <2>2, <2>4 DEF Joins, Starting
    <3> QED
      BY <1>4, <2>1, <2>4, <3>1, <3>2
  <2> QED
    BY <2>3, <2>4
<1>8. StartsFree'
  BY <1>7 DEF StartsFree
<1>9. ASSUME NEW i \in 1..Len(plan'), plan'[i].op = "done", NEW svc \in Service
      PROVE  /\ watcher'[svc] = "none" \/ Before(plan', "join_watcher", svc, i)
             /\ checker'[svc] = "none" \/ Before(plan', "join_checker", svc, i)
  <2>1. plan'[i] = plan[i + 1] /\ i + 1 \in 1..Len(plan) /\ i \in Nat
    BY <1>2
  <2>2. /\ watcher[svc] = "none" \/ Before(plan, "join_watcher", svc, i + 1)
        /\ checker[svc] = "none" \/ Before(plan, "join_checker", svc, i + 1)
    BY <1>9, <2>1 DEF Ordered, AllJoined
  <2>3. CASE plan[1].op \in Starting
    BY <1>6, <1>9, <2>1, <2>3
  <2>4. CASE plan[1].op \notin Starting
    <3>1. ~Joins(plan, "launch", svc, 1) /\ ~Joins(plan, "check", svc, 1)
      BY <2>4 DEF Joins, Starting
    <3> QED
      BY <1>4, <2>1, <2>2, <3>1
  <2> QED
    BY <2>3, <2>4
<1>10. AllJoined'
  BY <1>9 DEF AllJoined
<1>11. ~ended
  BY DEF Ordered, Closed
<1>12. ASSUME done \/ plan[1].op = "done"
       PROVE  /\ \A svc \in Service : watcher[svc] = "none" /\ checker[svc] = "none"
              /\ \A i \in 1..Len(plan) : plan[i].op \notin Starting
              /\ plan[Len(plan)].op = "end"
  <2>1. CASE done
    BY <1>11, <2>1 DEF Ordered, Quiet
  <2>2. CASE plan[1].op = "done"
    <3>1. \A svc \in Service : watcher[svc] = "none" /\ checker[svc] = "none"
      BY <1>2, <1>5, <2>2 DEF Ordered, AllJoined
    <3>2. \A i \in 1..Len(plan) : plan[i].op \notin Starting
      BY <1>2, <2>2 DEF Ordered, Orderly, JoinsLast
    <3>3. plan[Len(plan)].op = "end"
      BY <1>2, <2>2 DEF Ordered, Orderly, EndsLast
    <3> QED
      BY <3>1, <3>2, <3>3
  <2> QED
    BY <1>12, <2>1, <2>2
<1>13. plan[1].op # "end" /\ plan[Len(plan)].op = "end" =>
           plan' # <<>> /\ plan'[Len(plan')].op = "end"
  <2> SUFFICES ASSUME plan[1].op # "end", plan[Len(plan)].op = "end"
               PROVE  plan' # <<>> /\ plan'[Len(plan')].op = "end"
    OBVIOUS
  <2>1. Len(plan) \in 2..Len(plan) /\ Len(plan') = Len(plan) - 1
    BY <1>2
  <2>2. plan'[Len(plan')] = plan[Len(plan)] /\ Len(plan') # 0
    BY <1>2, <2>1
  <2> QED
    BY <2>2
<1>14. Quiet'
  <2> SUFFICES ASSUME done'
               PROVE  /\ \A svc \in Service : watcher'[svc] = "none" /\ checker'[svc] = "none"
                      /\ \A i \in 1..Len(plan') : plan'[i].op \notin Starting
                      /\ ended' \/ (plan' # <<>> /\ plan'[Len(plan')].op = "end")
    BY DEF Quiet
  <2>1. /\ \A svc \in Service : watcher[svc] = "none" /\ checker[svc] = "none"
        /\ \A i \in 1..Len(plan) : plan[i].op \notin Starting
        /\ plan[Len(plan)].op = "end"
    BY <1>12
  <2>2. \A svc \in Service : ~Joins(plan, "launch", svc, 1) /\ ~Joins(plan, "check", svc, 1)
    BY <1>2, <2>1 DEF Joins, Starting
  <2>3. \A svc \in Service : watcher'[svc] = "none" /\ checker'[svc] = "none"
    BY <2>1, <2>2
  <2>4. \A i \in 1..Len(plan') : plan'[i].op \notin Starting
    BY <1>2, <2>1
  <2> QED
    BY <1>13, <2>1, <2>3, <2>4
<1>15. Held'
  <2> SUFFICES ASSUME mutex' = "loop"
               PROVE  \E i \in 1..Len(plan') : plan'[i].op = "unlock"
    BY DEF Held
  <2>1. PICK i \in 1..Len(plan) : i # 1 /\ plan[i].op = "unlock"
    <3>1. CASE plan[1].op = "lock"
      BY <1>2, <3>1 DEF Ordered, Orderly, Unlocks
    <3>2. CASE mutex = "loop" /\ plan[1].op # "unlock"
      BY <3>2 DEF Ordered, Held
    <3> QED
      BY <3>1, <3>2
  <2>2. i \in 2..Len(plan)
    BY <1>2, <2>1
  <2> QED
    BY <1>2, <2>1, <2>2
<1>16. Closed'
  <2> SUFFICES ASSUME plan[1].op = "end"
               PROVE  plan' = <<>>
    BY <1>11 DEF Closed
  <2>1. Len(plan) = 1
    BY <1>2 DEF Ordered, Orderly, EndsLast
  <2> QED
    BY <1>2, <2>1
<1> QED
  BY <1>3, <1>8, <1>10, <1>14, <1>15, <1>16 DEF Ordered

(* A spawn that fails starts nothing: a send takes its place.              *)
LEMMA FailsOrdered ==
    ASSUME Ordered, plan # <<>>, Head(plan).op = "launch", plan' = self_send \o Tail(plan),
           UNCHANGED <<mutex, handles, ended, done>>
    PROVE  Ordered'
<1>1. plan \in Seq(Op)
  BY DEF Ordered, Orderly
<1>2. /\ plan' \in Seq(Op) /\ Len(plan') = Len(plan) /\ Len(plan) \in Nat \ {0}
      /\ 1 \in 1..Len(plan) /\ plan'[1].op = "send"
      /\ \A i \in 1..Len(plan) : i # 1 => plan'[i] = plan[i]
  BY <1>1, ReplacedAt
<1>3. plan[1].op = "launch"
  BY <1>1, TailAt
<1>4. Orderly(plan')
  BY ReplacedOrderly DEF Ordered
<1>5. \A i \in 1..Len(plan') : plan'[i].op # "send" => i # 1 /\ plan'[i] = plan[i]
  BY <1>2
<1>6. ASSUME NEW name \in {"join_checker", "join_watcher"}, NEW svc, NEW n, Before(plan, name, svc, n)
      PROVE  Before(plan', name, svc, n)
  <2>1. PICK j \in 1..Len(plan) : j < n /\ Joins(plan, name, svc, j)
    BY <1>6 DEF Before
  <2>2. j # 1
    BY <1>3, <2>1 DEF Joins
  <2> QED
    BY <1>2, <2>1, <2>2 DEF Before, Joins
<1>7. watcher' = watcher /\ checker' = checker /\ done' = done /\ ended' = ended /\ mutex' = mutex
  BY DEF handles
<1>8. StartsFree'
  BY <1>2, <1>5, <1>6, <1>7 DEF Ordered, StartsFree
<1>9. AllJoined'
  BY <1>2, <1>5, <1>6, <1>7 DEF Ordered, AllJoined
<1>10. ~done
  BY <1>2, <1>3 DEF Ordered, Quiet, Starting
<1>11. Held'
  <2> SUFFICES ASSUME mutex = "loop"
               PROVE  \E i \in 1..Len(plan') : plan'[i].op = "unlock"
    BY <1>7 DEF Held
  <2>1. PICK i \in 1..Len(plan) : plan[i].op = "unlock"
    BY DEF Ordered, Held
  <2>2. i # 1
    BY <1>3, <2>1
  <2> QED
    BY <1>2, <2>1, <2>2
<1> QED
  BY <1>4, <1>7, <1>8, <1>9, <1>10, <1>11 DEF Ordered, Quiet, Closed

(* A step that is not the loop's keeps the order, when no thread comes     *)
(* into being and the loop keeps or gets no mutex.                         *)
LEMMA OthersOrdered ==
    ASSUME Ordered, UNCHANGED <<plan, ended, done>>, mutex' = "loop" => mutex = "loop",
           \A svc \in Service :
               /\ watcher[svc] = "none" => watcher'[svc] = "none"
               /\ checker[svc] = "none" => checker'[svc] = "none"
    PROVE  Ordered'
<1>1. \A i \in 1..Len(plan) : plan[i].svc \in Service
  <2>1. plan \in Seq(Op)
    BY DEF Ordered, Orderly
  <2>2. \A i \in 1..Len(plan) : plan[i] \in Op
    BY <2>1
  <2> QED
    BY <2>2 DEF Op
<1>2. StartsFree'
  BY <1>1 DEF Ordered, StartsFree
<1>3. AllJoined'
  BY DEF Ordered, AllJoined
<1>4. Quiet' /\ Held' /\ Closed'
  BY DEF Ordered, Quiet, Held, Closed
<1> QED
  BY <1>2, <1>3, <1>4 DEF Ordered

-------------------------------------------------------------------------------
(* The loop takes an event and makes its list.                             *)
LEMMA ReceiveOrdered ==
    ASSUME Ordered, Receive
    PROVE  Ordered'
<1>1. PICK effect \in Effects, order \in key_orders :
          plan' = effect \o lock
                  \o (IF Head(chan) = "shutdown" THEN shutdown_and_join(order) ELSE unlock)
  BY DEF Receive
<1>2. Fresh(plan')
  <2>1. EffectRight(effect) /\ Follows(shutdown_and_join(order)) /\ Follows(unlock)
    BY EffectsRight, ShutdownFollows, UnlockFollows
  <2> QED
    BY <1>1, <2>1, ListsFresh
<1>3. ~done /\ ~ended' /\ ~done'
  BY DEF Ordered, Quiet, Receive
<1>4. StartsFree' /\ AllJoined'
  BY <1>2 DEF Fresh, StartsFree, AllJoined
<1> QED
  BY <1>2, <1>3, <1>4 DEF Fresh, Ordered, Quiet, Held, Closed

(* A send keeps the channel within its capacity.                           *)
LEMMA SendTyped ==
    ASSUME Simple, NEW message \in {"event", "shutdown"}, send(message)
    PROVE  chan' \in Seq({"event", "shutdown"}) /\ Len(chan') <= Capacity
<1> DEFINE M == {"event", "shutdown"}
<1>1. chan \in Seq(M) /\ Len(chan) <= Capacity /\ Capacity \in Nat
  BY ChannelAssumption DEF Simple
<1>2. CASE chan' = chan
  BY <1>1, <1>2
<1>3. CASE Len(chan) < Capacity /\ chan' = Append(chan, message)
  <2> HIDE DEF M
  <2>1. message \in M
    BY DEF M
  <2>2. chan' \in Seq(M) /\ Len(chan') = Len(chan) + 1 /\ Len(chan) \in Nat
    BY <1>1, <1>3, <2>1
  <2> QED
    BY <1>1, <1>3, <2>2 DEF M
<1> QED
  BY <1>2, <1>3 DEF send, room

(* The loop carries out the first operation of its list.                   *)
LEMMA ExecuteOrdered ==
    ASSUME Simple, Ordered, Execute
    PROVE  Simple' /\ Ordered'
<1> DEFINE name == Head(plan).op
           svc  == Head(plan).svc
<1>1. /\ plan # <<>> /\ plan \in Seq(Op) /\ Head(plan) = plan[1] /\ plan[1] \in Op
      /\ 1 \in 1..Len(plan)
  <2>1. plan # <<>> /\ plan \in Seq(Op)
    BY DEF Execute, Ordered, Orderly
  <2> QED
    BY <2>1, TailAt
<1>2. svc \in Service /\ name = plan[1].op /\ svc = plan[1].svc
  BY <1>1 DEF Op
<1>3. \A n, t : Joins(plan, n, t, 1) <=> n = name /\ t = svc
  BY <1>2 DEF Joins
<1>4. /\ done \in BOOLEAN /\ ended \in BOOLEAN
      /\ checker \in [Service -> {"none", "waiting", "diagnosing", "sending", "gone"}]
      /\ watcher \in [Service -> {"none", "watching", "diagnosing", "reporting", "gone"}]
      /\ stop \in [Service -> BOOLEAN] /\ killed \in [Service -> BOOLEAN]
  BY DEF Simple
<1>5. CASE name = "launch" /\ plan' = self_send \o Tail(plan)
           /\ UNCHANGED <<chan, mutex, handles, ended, done>>
  BY <1>1, <1>5, FailsOrdered DEF Execute, Simple, handles, window
<1>6. ASSUME plan' = Tail(plan), name = "send", OpSend
      PROVE  Simple' /\ Ordered'
  <2>1. Simple'
    BY <1>6, SendTyped DEF OpSend, Execute, Simple, handles, window
  <2>2. Ordered'
    BY <1>1, <1>2, <1>3, <1>4, <1>6, Advance DEF OpSend, handles
  <2> QED
    BY <2>1, <2>2
<1>7. ASSUME plan' = Tail(plan), (name = "stop" /\ OpStop(svc)) \/ (name = "kill" /\ OpKill(svc))
      PROVE  Simple' /\ Ordered'
  <2>1. Simple'
    BY <1>2, <1>4, <1>7 DEF OpStop, OpKill, Execute, Simple, window
  <2>2. Ordered'
    BY <1>1, <1>2, <1>3, <1>4, <1>7, Advance DEF OpStop, OpKill
  <2> QED
    BY <2>1, <2>2
<1>8. ASSUME plan' = Tail(plan), name = "join_checker", OpJoinChecker(svc)
      PROVE  Simple' /\ Ordered'
  <2>1. Simple'
    BY <1>2, <1>4, <1>8 DEF OpJoinChecker, Execute, Simple, window
  <2>2. /\ checker' = [checker EXCEPT ![svc] = "none"] /\ checker'[svc] = "none"
        /\ watcher' = watcher /\ done' = done /\ ended' = ended /\ mutex' = mutex
        /\ \A t \in Service : checker[t] = "none" => checker'[t] = "none"
    BY <1>2, <1>4, <1>8 DEF OpJoinChecker
  <2>3. Ordered'
    BY <1>1, <1>2, <1>3, <1>4, <1>8, <2>2, Advance
  <2> QED
    BY <2>1, <2>3
<1>9. ASSUME plan' = Tail(plan), name = "join_watcher", OpJoinWatcher(svc)
      PROVE  Simple' /\ Ordered'
  <2>1. Simple'
    BY <1>2, <1>4, <1>9 DEF OpJoinWatcher, Execute, Simple, window
  <2>2. /\ watcher' = [watcher EXCEPT ![svc] = "none"] /\ watcher'[svc] = "none"
        /\ checker' = checker /\ done' = done /\ ended' = ended /\ mutex' = mutex
        /\ \A t \in Service : watcher[t] = "none" => watcher'[t] = "none"
    BY <1>2, <1>4, <1>9 DEF OpJoinWatcher
  <2>3. Ordered'
    BY <1>1, <1>2, <1>3, <1>4, <1>9, <2>2, Advance
  <2> QED
    BY <2>1, <2>3
<1>10. ASSUME plan' = Tail(plan), name = "launch", OpLaunch(svc)
       PROVE  Simple' /\ Ordered'
  <2>1. watcher[svc] = "none"
    BY <1>1, <1>2, <1>10 DEF Ordered, StartsFree, Before
  <2>2. leaked' = leaked
    BY <1>10, <2>1 DEF OpLaunch, lost, is_gone
  <2>3. Simple'
    BY <1>2, <1>4, <1>10, <2>2 DEF OpLaunch, Execute, Simple, window
  <2>4. /\ checker' = checker /\ done' = done /\ ended' = ended /\ mutex' = mutex
        /\ \A t \in Service : t # svc => watcher'[t] = watcher[t]
    BY <1>2, <1>4, <1>10 DEF OpLaunch
  <2>5. Ordered'
    BY <1>1, <1>2, <1>3, <1>4, <1>10, <2>4, Advance
  <2> QED
    BY <2>3, <2>5
<1>11. ASSUME plan' = Tail(plan), name = "check", OpCheck(svc)
       PROVE  Simple' /\ Ordered'
  <2>1. checker[svc] = "none"
    BY <1>1, <1>2, <1>11 DEF Ordered, StartsFree, Before
  <2>2. leaked' = leaked
    BY <1>11, <2>1 DEF OpCheck, lost, is_gone
  <2>3. Simple'
    BY <1>2, <1>4, <1>11, <2>2 DEF OpCheck, Execute, Simple, window
  <2>4. /\ watcher' = watcher /\ done' = done /\ ended' = ended /\ mutex' = mutex
        /\ \A t \in Service : t # svc => checker'[t] = checker[t]
    BY <1>2, <1>4, <1>11 DEF OpCheck
  <2>5. Ordered'
    BY <1>1, <1>2, <1>3, <1>4, <1>11, <2>4, Advance
  <2> QED
    BY <2>3, <2>5
<1>12. ASSUME plan' = Tail(plan), (name = "lock" /\ OpLock) \/ (name = "unlock" /\ OpUnlock)
       PROVE  Simple' /\ Ordered'
  <2>1. Simple'
    BY <1>12 DEF OpLock, OpUnlock, Execute, Simple, handles, window
  <2>2. Ordered'
    BY <1>1, <1>2, <1>3, <1>4, <1>12, Advance DEF OpLock, OpUnlock, handles
  <2> QED
    BY <2>1, <2>2
<1>13. ASSUME plan' = Tail(plan), (name = "done" /\ OpDone) \/ (name = "end" /\ OpEnd)
       PROVE  Simple' /\ Ordered'
  <2>1. Simple'
    <3>1. <<>> \in Seq({"event", "shutdown"}) /\ Len(<<>>) <= Capacity
      BY ChannelAssumption
    <3> QED
      BY <1>13, <3>1 DEF OpDone, OpEnd, Execute, Simple, handles, window
  <2>2. Ordered'
    BY <1>1, <1>2, <1>3, <1>4, <1>13, Advance DEF OpDone, OpEnd, handles
  <2> QED
    BY <2>1, <2>2
<1>14. \/ name = "launch" /\ plan' = self_send \o Tail(plan)
             /\ UNCHANGED <<chan, mutex, handles, ended, done>>
       \/ /\ plan' = Tail(plan)
          /\ \/ name = "send" /\ OpSend
             \/ (name = "stop" /\ OpStop(svc)) \/ (name = "kill" /\ OpKill(svc))
             \/ name = "join_checker" /\ OpJoinChecker(svc)
             \/ name = "join_watcher" /\ OpJoinWatcher(svc)
             \/ name = "launch" /\ OpLaunch(svc)
             \/ name = "check" /\ OpCheck(svc)
             \/ (name = "lock" /\ OpLock) \/ (name = "unlock" /\ OpUnlock)
             \/ (name = "done" /\ OpDone) \/ (name = "end" /\ OpEnd)
  BY DEF Execute
<1> HIDE DEF name, svc
<1> QED
  BY <1>5, <1>6, <1>7, <1>8, <1>9, <1>10, <1>11, <1>12, <1>13, <1>14, Zenon

(* The threads of a service.                                               *)
LEMMA ThreadsOrdered ==
    ASSUME Simple, Ordered, NEW svc \in Service,
           Checker(svc) \/ Watcher(svc) \/ ProcessEnds(svc)
    PROVE  Simple' /\ Ordered'
<1>1. /\ checker \in [Service -> {"none", "waiting", "diagnosing", "sending", "gone"}]
      /\ watcher \in [Service -> {"none", "watching", "diagnosing", "reporting", "gone"}]
      /\ chan \in Seq({"event", "shutdown"}) /\ Len(chan) <= Capacity
  BY DEF Simple
<1>2. CASE Checker(svc)
  <2>1. PICK state \in {"waiting", "diagnosing", "sending", "gone"} :
            /\ checker' = [checker EXCEPT ![svc] = state] /\ checker[svc] # "none"
            /\ send("event") \/ UNCHANGED chan
    <3>1. CASE checker[svc] = "waiting" /\ stop[svc]
      BY <1>2, <3>1 DEF Checker
    <3>2. CASE checker[svc] = "waiting" /\ ~stop[svc]
      BY <1>2, <3>2 DEF Checker
    <3>3. CASE checker[svc] = "diagnosing"
      BY <1>2, <3>3 DEF Checker
    <3>4. CASE checker[svc] = "sending"
      BY <1>2, <3>4 DEF Checker
    <3> QED
      BY <1>2, <3>1, <3>2, <3>3, <3>4 DEF Checker
  <2>2. UNCHANGED <<loop_side, mutex, stop, watcher, killed, leaked, source, window>>
    BY <1>2 DEF Checker
  <2>3. chan' \in Seq({"event", "shutdown"}) /\ Len(chan') <= Capacity
    BY <1>1, <2>1, SendTyped
  <2>4. Simple'
    BY <1>1, <2>1, <2>2, <2>3 DEF Simple, loop_side, window
  <2>5. \A t \in Service : checker[t] = "none" => checker'[t] = "none"
    BY <1>1, <2>1
  <2> QED
    BY <2>2, <2>4, <2>5, OthersOrdered DEF loop_side
<1>3. CASE Watcher(svc) \/ ProcessEnds(svc)
  <2>1. PICK state \in {"diagnosing", "reporting", "gone"} :
            /\ watcher' = [watcher EXCEPT ![svc] = state] /\ watcher[svc] # "none"
            /\ send("event") \/ UNCHANGED chan
    <3>1. CASE ProcessEnds(svc)
      BY <3>1 DEF ProcessEnds
    <3>2. CASE Watcher(svc)
      BY <3>2 DEF Watcher
    <3> QED
      BY <1>3, <3>1, <3>2
  <2>2. UNCHANGED <<loop_side, mutex, checker, stop, killed, leaked, source, window>>
    BY <1>3 DEF Watcher, ProcessEnds
  <2>3. chan' \in Seq({"event", "shutdown"}) /\ Len(chan') <= Capacity
    BY <1>1, <2>1, SendTyped
  <2>4. Simple'
    BY <1>1, <2>1, <2>2, <2>3 DEF Simple, loop_side, window
  <2>5. \A t \in Service : watcher[t] = "none" => watcher'[t] = "none"
    BY <1>1, <2>1
  <2> QED
    BY <2>2, <2>4, <2>5, OthersOrdered DEF loop_side
<1> QED
  BY <1>2, <1>3

(* The other senders.                                                      *)
LEMMA SourcesOrdered ==
    ASSUME Simple, Ordered, NEW t \in Sources, SourceWants(t) \/ SourceSends(t)
    PROVE  Simple' /\ Ordered'
<1>1. source \in [Sources -> {"idle", "event", "shutdown", "gone"}]
  BY DEF Simple
<1>2. UNCHANGED <<loop_side, mutex, handles, window>>
  BY DEF SourceWants, SourceSends
<1>3. source' \in [Sources -> {"idle", "event", "shutdown", "gone"}]
  BY <1>1 DEF SourceWants, SourceSends
<1>4. chan' \in Seq({"event", "shutdown"}) /\ Len(chan') <= Capacity
  <2>1. CASE SourceWants(t)
    BY <2>1 DEF SourceWants, Simple
  <2>2. CASE SourceSends(t)
    BY <2>2, SendTyped DEF SourceSends
  <2> QED
    BY <2>1, <2>2
<1>5. Simple'
  BY <1>2, <1>3, <1>4 DEF Simple, loop_side, handles, window
<1> QED
  BY <1>2, <1>5, OthersOrdered DEF loop_side, handles

(* The window and main().                                                  *)
LEMMA WindowOrdered ==
    ASSUME Simple, Ordered, Ui \/ Close \/ AwaitLoop
    PROVE  Simple' /\ Ordered'
<1>1. UNCHANGED <<loop_side, handles, source>> /\ mutex' \in {mutex, "free", "ui"}
  BY DEF Ui, Draw, Drawn, Click, OnExit, Close, AwaitLoop, drawn
<1>2. chan' \in Seq({"event", "shutdown"}) /\ Len(chan') <= Capacity
  <2>1. chan' = chan \/ send("event") \/ send("shutdown")
    BY DEF Ui, Draw, Drawn, Click, OnExit, Close, AwaitLoop
  <2> QED
    BY <2>1, SendTyped DEF Simple
<1>3. /\ ui' \in {"idle", "drawing", "clicking", "closing", "awaiting", "clean", "timed_out"}
      /\ clicks' \in 0 .. MaxClicks
  BY ChannelAssumption DEF Simple, Ui, Draw, Drawn, Click, OnExit, Close, AwaitLoop
<1>4. Simple'
  BY <1>1, <1>2, <1>3 DEF Simple, loop_side, handles
<1> QED
  BY <1>1, <1>4, OthersOrdered DEF loop_side, handles

(* Every step keeps the invariant; that RAMPP exits cleanly is found by    *)
(* main() when the loop has announced its end.                             *)
LEMMA ChannelStep ==
    ASSUME ChanInv, [ChannelNext]_channel_vars
    PROVE  ChanInv'
<1>1. Simple /\ Ordered /\ CleanExit
  BY DEF ChanInv, Ordered
<1>2. CASE UNCHANGED channel_vars
  <2>1. Simple' /\ CleanExit'
    BY <1>1, <1>2 DEF channel_vars, loop_side, handles, window, Simple, CleanExit
  <2>2. Ordered'
    BY <1>1, <1>2, OthersOrdered DEF channel_vars, loop_side, handles
  <2> QED
    BY <2>1, <2>2 DEF ChanInv, Ordered
<1>3. CASE ChannelNext
  <2>1. Simple' /\ Ordered'
    <3>1. CASE Receive
      <4>1. chan \in Seq({"event", "shutdown"}) /\ chan # <<>> /\ chan' = Tail(chan)
        BY <1>1, <3>1 DEF Simple, Receive
      <4>2. chan' \in Seq({"event", "shutdown"}) /\ Len(chan') <= Len(chan)
        BY <4>1
      <4>3. Len(chan') <= Capacity
        BY <1>1, <4>1, <4>2, ChannelAssumption DEF Simple
      <4>4. Simple'
        BY <1>1, <3>1, <4>2, <4>3 DEF Simple, Receive, handles, window
      <4> QED
        BY <1>1, <3>1, <4>4, ReceiveOrdered
    <3>2. CASE Execute
      BY <1>1, <3>2, ExecuteOrdered
    <3> QED
      BY <1>1, <1>3, <3>1, <3>2, ThreadsOrdered, SourcesOrdered, WindowOrdered
         DEF ChannelNext, Loop
  <2>2. CleanExit'
    <3> SUFFICES ASSUME ui' = "clean"
                 PROVE  \A svc \in Service : watcher'[svc] = "none" /\ checker'[svc] = "none"
      BY DEF CleanExit
    <3>1. ui # "clean"
      BY <1>3 DEF ChannelNext, Exited
    <3>2. done /\ watcher' = watcher /\ checker' = checker
      <4>1. AwaitLoop
        BY <1>3, <3>1 DEF ChannelNext, Loop, Receive, Execute, Ui, Draw, Drawn, Click, OnExit,
                          Close, Checker, Watcher, ProcessEnds, SourceWants, SourceSends, window
      <4> QED
        BY <3>1, <4>1 DEF AwaitLoop, handles
    <3> QED
      BY <1>1, <3>2 DEF Ordered, Quiet
  <2> QED
    BY <2>1, <2>2 DEF ChanInv, Ordered
<1> QED
  BY <1>2, <1>3

(* At the start there are no threads, and the loop has only sends to make. *)
LEMMA ChannelStarts ==
    ASSUME ChannelInit
    PROVE  ChanInv
<1>1. PICK n \in 0..Cardinality(Service) : plan = [i \in 1..n |-> op("send", anyone)]
  BY DEF ChannelInit, restore
<1>2. plan \in Seq(Op) /\ Len(plan) = n /\ \A i \in 1..Len(plan) : plan[i].op = "send"
  <2>1. op("send", anyone) \in Op /\ op("send", anyone).op = "send"
    BY OpsTyped DEF OpName
  <2>2. n \in Nat
    BY ChannelAssumption, FS_CardinalityType
  <2> QED
    BY <1>1, <2>1, <2>2
<1>3. Orderly(plan)
  BY <1>2 DEF Orderly, StartsOne, JoinsLast, Unlocks, EndsLast, Starting
<1>4. StartsFree /\ AllJoined
  BY <1>2 DEF StartsFree, AllJoined
<1>5. Simple
  <2>1. <<>> \in Seq({"event", "shutdown"}) /\ Len(<<>>) <= Capacity /\ 0 \in 0..MaxClicks
    BY ChannelAssumption
  <2> QED
    BY <2>1 DEF ChannelInit, Simple
<1>6. ~done /\ ~ended /\ mutex # "loop" /\ ui # "clean"
  BY DEF ChannelInit
<1> QED
  BY <1>3, <1>4, <1>5, <1>6 DEF ChanInv, Quiet, Held, Closed, CleanExit

-------------------------------------------------------------------------------
(* The invariant holds of every behaviour.                                 *)
THEOREM ChannelInductive == ChannelSpec => []ChanInv
<1>1. ChannelInit => ChanInv
  BY ChannelStarts
<1>2. ChanInv /\ [ChannelNext]_channel_vars => ChanInv'
  BY ChannelStep
<1> QED
  BY <1>1, <1>2, PTL DEF ChannelSpec

(* The channel keeps within its capacity, and the loop never comes back to *)
(* it with the mutex in its hands (main.rs, the loop).                     *)
THEOREM ChannelIsTyped == ChannelSpec => []ChannelTypeOK
<1>1. ChanInv => ChannelTypeOK
  <2> SUFFICES ASSUME ChanInv PROVE ChannelTypeOK
    OBVIOUS
  <2>1. plan \in Seq(Op)
    BY DEF ChanInv, Orderly
  <2>2. \A i \in DOMAIN plan : plan[i].svc \in Service
    <3>1. DOMAIN plan = 1..Len(plan) /\ \A i \in 1..Len(plan) : plan[i] \in Op
      BY <2>1
    <3> QED
      BY <3>1 DEF Op
  <2>3. mutex = "loop" => plan # <<>>
    BY DEF ChanInv, Held
  <2> QED
    BY <2>2, <2>3 DEF ChanInv, Simple, Closed, ChannelTypeOK
<1> QED
  BY <1>1, ChannelInductive, PTL

(* No checker and no watcher is ever replaced while it may run: wherever   *)
(* the loop starts a thread it has joined the one before (executor.rs,     *)
(* do_spawn and start_health_check, by way of do_kill and do_stop_health). *)
THEOREM HandlesAreKept == ChannelSpec => []OneOfEach
<1>1. ChanInv => OneOfEach
  BY DEF ChanInv, Simple, OneOfEach
<1> QED
  BY <1>1, ChannelInductive, PTL

(* When main() hears from the loop that all is over, it is: every process  *)
(* is dead and every thread joined (executor.rs, shutdown_and_join).       *)
THEOREM ExitsAreClean == ChannelSpec => []CleanExit
<1>1. ChanInv => CleanExit
  BY DEF ChanInv
<1> QED
  BY <1>1, ChannelInductive, PTL
===============================================================================
