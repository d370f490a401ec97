--------------------------- MODULE MinimiserProofs ---------------------------
(***************************************************************************)
(* The parallel minimiser: the lists behind its arrays, then its ranks and *)
(* messages, then what they compute: what is in each message, the numbers  *)
(* of the blocks, and the machine that is printed.                         *)
(***************************************************************************)
EXTENDS DynArray, ParMinimise, SequenceTheorems, FiniteSetTheorems, NaturalsInduction,
        WellFoundedInduction, TLAPS

(***************************************************************************)
(* DynArray for every bound on the indexes: wherever a walk begins, it     *)
(* ends at the node of its index, and the destructor deletes every node.   *)
(*                                                                         *)
(* The properties say nothing of the links; the invariant does.  Node j is *)
(* linked to j - 1 and j + 1, the node used last is the one of             *)
(* latest_index, and a walk that has come to i stands at node i + 1.       *)
(***************************************************************************)
Linked ==
    /\ size \in 0 .. MaxIndex + 1
    /\ next = [a \in 0 .. size |-> IF a = size THEN NULL ELSE a + 1]
    /\ prev = [a \in 0 .. size |-> IF a = 0 THEN NULL ELSE a - 1]

PlacesKept ==
    /\ latest \in Links /\ endFlag \in Links
    /\ latest_index \in 0 .. MaxIndex
    /\ size > 0 => /\ endFlag = size
                   /\ latest_index < size
                   /\ latest = latest_index + 1

WalkOnCourse ==
    /\ call \in [pc : {"idle", "walk", "returned", "delete", "gone"},
                 index : 0 .. MaxIndex, temp : Links, i : 0 .. MaxIndex + 2]
    /\ call.pc = "walk" => /\ call.index < size
                           /\ call.i < size
                           /\ call.temp = call.i + 1
    /\ call.pc = "delete" => call.i <= size /\ call.temp = call.i

ArrayInv == Linked /\ PlacesKept /\ WalkOnCourse /\ AsIfSimpleArray

LEMMA ArrayInvInit == ArrayInit => ArrayInv
<1> SUFFICES ASSUME ArrayInit PROVE ArrayInv
  OBVIOUS
<1>1. MaxIndex \in Nat /\ NULL \notin Int
  BY ArrayAssumption
<1>2. Linked
  BY <1>1 DEF ArrayInit, Linked, base
<1>3. PlacesKept
  BY <1>1 DEF ArrayInit, PlacesKept, Links
<1>4. WalkOnCourse
  BY <1>1 DEF ArrayInit, WalkOnCourse, Call, Links, Nodes
<1>5. AsIfSimpleArray
  BY DEF ArrayInit, AsIfSimpleArray, Call
<1> QED
  BY <1>2, <1>3, <1>4, <1>5 DEF ArrayInv

(* A walk that begins at the base, at the node used last or at the end.      *)
LEMMA FindKeeps ==
    ASSUME ArrayInv, NEW index \in 0 .. MaxIndex, Find(index)
    PROVE  ArrayInv'
<1>1. MaxIndex \in Nat /\ NULL \notin Int
  BY ArrayAssumption
<1>2. UNCHANGED <<size, next, prev, latest, latest_index, endFlag>> /\ index < size
  BY DEF Find
<1>3. Linked' /\ PlacesKept'
  BY <1>2 DEF ArrayInv, Linked, PlacesKept
<1>4. size \in 1 .. MaxIndex + 1 /\ latest_index \in 0 .. size - 1
  BY <1>1, <1>2 DEF ArrayInv, Linked, PlacesKept
<1>5. next[base] = 1 /\ latest = latest_index + 1 /\ endFlag = size
  BY <1>4 DEF ArrayInv, Linked, PlacesKept, base
<1>6. \E i \in 0 .. size - 1 : call' = Call("walk", index, i + 1, i)
  <2>1. \/ call' = Call("walk", index, next[base], 0)
        \/ call' = Call("walk", index, latest, latest_index)
        \/ call' = Call("walk", index, endFlag, size - 1)
    BY DEF Find
  <2>2. 0 \in 0 .. size - 1 /\ size - 1 \in 0 .. size - 1 /\ size = (size - 1) + 1
    BY <1>4
  <2> QED
    BY <1>4, <1>5, <2>1, <2>2
<1>7. WalkOnCourse' /\ AsIfSimpleArray'
  <2>1. PICK i \in 0 .. size - 1 : call' = Call("walk", index, i + 1, i)
    BY <1>6
  <2>2. i + 1 \in Links /\ i \in 0 .. MaxIndex + 2 /\ i < size
    BY <1>1, <1>4 DEF Links, Nodes
  <2> QED
    BY <1>2, <2>1, <2>2 DEF WalkOnCourse, AsIfSimpleArray, Call
<1> QED
  BY <1>3, <1>7 DEF ArrayInv

LEMMA StepKeeps ==
    ASSUME ArrayInv, Forward \/ Backward
    PROVE  ArrayInv'
<1>1. MaxIndex \in Nat /\ NULL \notin Int
  BY ArrayAssumption
<1>2. UNCHANGED <<size, next, prev, latest, latest_index, endFlag>> /\ call.pc = "walk"
  BY DEF Forward, Backward
<1>3. Linked' /\ PlacesKept'
  BY <1>2 DEF ArrayInv, Linked, PlacesKept
<1>4. /\ size \in 0 .. MaxIndex + 1
      /\ call.index \in 0 .. MaxIndex /\ call.index < size
      /\ call.i \in 0 .. MaxIndex + 2 /\ call.i < size /\ call.temp = call.i + 1
  BY <1>2 DEF ArrayInv, Linked, WalkOnCourse
<1>5. CASE Forward
  <2>1. call' = [call EXCEPT !.temp = next[call.temp], !.i = call.i + 1] /\ call.i < call.index
    BY <1>5 DEF Forward
  <2>2. next[call.temp] = call.i + 2
    BY <1>1, <1>4, <2>1 DEF ArrayInv, Linked
  <2>3. call.i + 2 \in Links /\ call.i + 1 \in 0 .. MaxIndex + 2 /\ call.i + 1 < size
    BY <1>1, <1>4, <2>1 DEF Links, Nodes
  <2>4. call \in [pc : {"idle", "walk", "returned", "delete", "gone"},
                        index : 0 .. MaxIndex, temp : Links, i : 0 .. MaxIndex + 2]
    BY DEF ArrayInv, WalkOnCourse
  <2>5. /\ call' \in [pc : {"idle", "walk", "returned", "delete", "gone"},
                        index : 0 .. MaxIndex, temp : Links, i : 0 .. MaxIndex + 2]
        /\ call'.pc = "walk" /\ call'.index = call.index
        /\ call'.temp = call.i + 2 /\ call'.i = call.i + 1
    BY <1>2, <2>1, <2>2, <2>3, <2>4
  <2>6. WalkOnCourse' /\ AsIfSimpleArray'
    BY <1>2, <1>4, <2>3, <2>5 DEF WalkOnCourse, AsIfSimpleArray
  <2> QED
    BY <1>3, <2>6 DEF ArrayInv
<1>6. CASE Backward
  <2>1. call' = [call EXCEPT !.temp = prev[call.temp], !.i = call.i - 1] /\ call.i > call.index
    BY <1>6 DEF Backward
  <2>2. prev[call.temp] = call.i
    BY <1>1, <1>4, <2>1 DEF ArrayInv, Linked
  <2>3. call.i \in Links /\ call.i - 1 \in 0 .. MaxIndex + 2 /\ call.i - 1 < size
    BY <1>1, <1>4, <2>1 DEF Links, Nodes
  <2>4. call \in [pc : {"idle", "walk", "returned", "delete", "gone"},
                        index : 0 .. MaxIndex, temp : Links, i : 0 .. MaxIndex + 2]
    BY DEF ArrayInv, WalkOnCourse
  <2>5. /\ call' \in [pc : {"idle", "walk", "returned", "delete", "gone"},
                        index : 0 .. MaxIndex, temp : Links, i : 0 .. MaxIndex + 2]
        /\ call'.pc = "walk" /\ call'.index = call.index
        /\ call'.temp = call.i /\ call'.i = call.i - 1
    BY <1>2, <2>1, <2>2, <2>3, <2>4
  <2>6. WalkOnCourse' /\ AsIfSimpleArray'
    BY <1>2, <1>4, <2>3, <2>5 DEF WalkOnCourse, AsIfSimpleArray
  <2> QED
    BY <1>3, <2>6 DEF ArrayInv
<1> QED
  BY <1>5, <1>6

LEMMA ArriveKeeps ==
    ASSUME ArrayInv, Arrive
    PROVE  ArrayInv'
<1>1. /\ UNCHANGED <<size, next, prev, endFlag>>
      /\ call.pc = "walk" /\ call.i = call.index
      /\ latest' = call.temp /\ latest_index' = call.index
      /\ call' = [call EXCEPT !.pc = "returned"]
  BY DEF Arrive
<1>2. /\ call.index \in 0 .. MaxIndex /\ call.index < size
      /\ call.temp = call.index + 1 /\ call.temp \in Links
  BY <1>1 DEF ArrayInv, WalkOnCourse
<1>3. Linked' /\ PlacesKept'
  BY <1>1, <1>2 DEF ArrayInv, Linked, PlacesKept
<1>4. WalkOnCourse' /\ AsIfSimpleArray'
  BY <1>1, <1>2 DEF ArrayInv, WalkOnCourse, AsIfSimpleArray
<1> QED
  BY <1>3, <1>4 DEF ArrayInv

(* The new nodes are linked behind the last one, which is the base of an     *)
(* empty list.                                                               *)
LEMMA GrowKeeps ==
    ASSUME ArrayInv, NEW index \in 0 .. MaxIndex, Grow(index)
    PROVE  ArrayInv'
<1>1. MaxIndex \in Nat /\ NULL \notin Int
  BY ArrayAssumption
<1> DEFINE tail == IF size > 0 THEN endFlag ELSE base
           new  == size + 1 .. index + 1
<1>2. size \in 0 .. MaxIndex + 1 /\ index >= size /\ size' = index + 1
  BY DEF Grow, ArrayInv, Linked
<1>3. tail = size
  BY <1>2 DEF ArrayInv, PlacesKept, base
<1>4. /\ next' = [a \in DOMAIN next \cup new |->
                     IF a = index + 1 THEN NULL
                     ELSE IF a \in new THEN a + 1
                     ELSE IF a = tail THEN size + 1 ELSE next[a]]
      /\ prev' = [a \in DOMAIN prev \cup new |->
                     IF a = size + 1 THEN tail
                     ELSE IF a \in new THEN a - 1 ELSE prev[a]]
  BY DEF Grow
<1>5. DOMAIN next = 0 .. size /\ DOMAIN prev = 0 .. size
  BY DEF ArrayInv, Linked
<1>6. (0 .. size) \cup new = 0 .. index + 1
  BY <1>2
<1>7. \A a \in 0 .. index + 1 : next'[a] = IF a = index + 1 THEN NULL ELSE a + 1
  <2> SUFFICES ASSUME NEW a \in 0 .. index + 1
               PROVE  next'[a] = IF a = index + 1 THEN NULL ELSE a + 1
    OBVIOUS
  <2>1. a < size => next[a] = a + 1
    BY <1>2 DEF ArrayInv, Linked
  <2> QED
    BY <1>2, <1>3, <1>4, <1>5, <1>6, <2>1
<1>8. \A a \in 0 .. index + 1 : prev'[a] = IF a = 0 THEN NULL ELSE a - 1
  <2> SUFFICES ASSUME NEW a \in 0 .. index + 1
               PROVE  prev'[a] = IF a = 0 THEN NULL ELSE a - 1
    OBVIOUS
  <2>1. a <= size => prev[a] = IF a = 0 THEN NULL ELSE a - 1
    BY <1>2 DEF ArrayInv, Linked
  <2> QED
    BY <1>2, <1>3, <1>4, <1>5, <1>6, <2>1
<1>9. Linked'
  <2>1. next' = [a \in 0 .. index + 1 |-> IF a = index + 1 THEN NULL ELSE a + 1]
    BY <1>4, <1>5, <1>6, <1>7
  <2>2. prev' = [a \in 0 .. index + 1 |-> IF a = 0 THEN NULL ELSE a - 1]
    BY <1>4, <1>5, <1>6, <1>8
  <2>3. size' \in 0 .. MaxIndex + 1
    BY <1>1, <1>2
  <2> QED
    BY <1>2, <2>1, <2>2, <2>3 DEF Linked
<1>10. /\ latest' = (IF size = 0 THEN 1 ELSE latest)
       /\ latest_index' = (IF size = 0 THEN 0 ELSE latest_index)
       /\ endFlag' = index + 1
       /\ call' = Call("returned", index, index + 1, index)
  BY DEF Grow
<1>11. PlacesKept'
  <2>1. index + 1 \in Links /\ 1 \in Links
    BY <1>1 DEF Links, Nodes
  <2>2. CASE size = 0
    BY <1>1, <1>2, <1>10, <2>1, <2>2 DEF PlacesKept
  <2>3. CASE size > 0
    <3>1. latest \in Links /\ latest_index \in 0 .. size - 1 /\ latest = latest_index + 1
      BY <1>1, <1>2, <2>3 DEF ArrayInv, PlacesKept
    <3>2. latest' = latest /\ latest_index' = latest_index
      BY <1>2, <1>10, <2>3
    <3> HIDE DEF tail, new
    <3> QED
      BY <1>1, <1>2, <1>10, <2>1, <3>1, <3>2 DEF PlacesKept
  <2> QED
    BY <1>2, <2>2, <2>3
<1>12. WalkOnCourse' /\ AsIfSimpleArray'
  <2>1. index + 1 \in Links /\ index \in 0 .. MaxIndex + 2
    BY <1>1 DEF Links, Nodes
  <2> QED
    BY <1>10, <2>1 DEF WalkOnCourse, AsIfSimpleArray, Call
<1> QED
  BY <1>9, <1>11, <1>12 DEF ArrayInv

LEMMA UseKeeps ==
    ASSUME ArrayInv, Use
    PROVE  ArrayInv'
BY DEF Use, ArrayInv, Linked, PlacesKept, WalkOnCourse, AsIfSimpleArray

LEMMA DestroyKeeps ==
    ASSUME ArrayInv, Destroy
    PROVE  ArrayInv'
<1>1. MaxIndex \in Nat
  BY ArrayAssumption
<1>2. /\ UNCHANGED <<size, next, prev, latest, latest_index, endFlag>>
      /\ call' = Call("delete", 0, 0, 0)
  BY DEF Destroy, base
<1>3. Linked' /\ PlacesKept'
  BY <1>2 DEF ArrayInv, Linked, PlacesKept
<1>4. WalkOnCourse' /\ AsIfSimpleArray'
  <2>1. 0 \in Links /\ 0 \in 0 .. MaxIndex /\ 0 \in 0 .. MaxIndex + 2 /\ 0 <= size
    BY <1>1 DEF Links, Nodes, ArrayInv, Linked
  <2> QED
    BY <1>2, <2>1 DEF WalkOnCourse, AsIfSimpleArray, Call
<1> QED
  BY <1>3, <1>4 DEF ArrayInv

(* Node i is the i-th one deleted, and after the last one nothing is left.   *)
LEMMA DeleteNodeKeeps ==
    ASSUME ArrayInv, DeleteNode
    PROVE  ArrayInv'
<1>1. MaxIndex \in Nat /\ NULL \notin Int
  BY ArrayAssumption
<1>2. /\ UNCHANGED <<size, next, prev, latest, latest_index, endFlag>>
      /\ call.pc = "delete"
      /\ call' = [call EXCEPT !.temp = next[call.temp], !.i = call.i + 1,
                              !.pc = IF call.i < size THEN "delete" ELSE "gone"]
  BY DEF DeleteNode
<1>3. Linked' /\ PlacesKept'
  BY <1>2 DEF ArrayInv, Linked, PlacesKept
<1>4. /\ size \in 0 .. MaxIndex + 1
      /\ call.i \in 0 .. size /\ call.temp = call.i
  BY <1>1, <1>2 DEF ArrayInv, Linked, WalkOnCourse
<1>5. next[call.temp] = IF call.i = size THEN NULL ELSE call.i + 1
  BY <1>4 DEF ArrayInv, Linked
<1>6. next[call.temp] \in Links /\ call.i + 1 \in 0 .. MaxIndex + 2
  BY <1>1, <1>4, <1>5 DEF Links, Nodes
<1>7. call \in [pc : {"idle", "walk", "returned", "delete", "gone"},
                index : 0 .. MaxIndex, temp : Links, i : 0 .. MaxIndex + 2]
  BY DEF ArrayInv, WalkOnCourse
<1>8. /\ call' \in [pc : {"idle", "walk", "returned", "delete", "gone"},
                    index : 0 .. MaxIndex, temp : Links, i : 0 .. MaxIndex + 2]
      /\ call'.pc = IF call.i < size THEN "delete" ELSE "gone"
      /\ call'.i = call.i + 1
      /\ call'.temp = IF call.i = size THEN NULL ELSE call.i + 1
  BY <1>2, <1>5, <1>6, <1>7
<1>9. WalkOnCourse' /\ AsIfSimpleArray'
  BY <1>2, <1>4, <1>8 DEF WalkOnCourse, AsIfSimpleArray
<1> QED
  BY <1>3, <1>9 DEF ArrayInv

LEMMA ArrayInvNext == ArrayInv /\ [ArrayNext]_arrayVars => ArrayInv'
<1> SUFFICES ASSUME ArrayInv, [ArrayNext]_arrayVars PROVE ArrayInv'
  OBVIOUS
<1>1. ASSUME NEW index \in 0 .. MaxIndex, Find(index) PROVE ArrayInv'
  BY <1>1, FindKeeps
<1>2. ASSUME NEW index \in 0 .. MaxIndex, Grow(index) PROVE ArrayInv'
  BY <1>2, GrowKeeps
<1>3. CASE Forward \/ Backward
  BY <1>3, StepKeeps
<1>4. CASE Arrive
  BY <1>4, ArriveKeeps
<1>5. CASE Use
  BY <1>5, UseKeeps
<1>6. CASE Destroy
  BY <1>6, DestroyKeeps
<1>7. CASE DeleteNode
  BY <1>7, DeleteNodeKeeps
<1>8. CASE UNCHANGED arrayVars
  BY <1>8 DEF arrayVars, ArrayInv, Linked, PlacesKept, WalkOnCourse, AsIfSimpleArray
<1> QED
  BY <1>1, <1>2, <1>3, <1>4, <1>5, <1>6, <1>7, <1>8 DEF ArrayNext

(* "As if it is a simple array": a reference to an index is the node that    *)
(* was appended for it, wherever the walk of operator[] began, and the       *)
(* destructor leaves no node behind.                                         *)
THEOREM ArrayIsSimple == ArraySpec => []AsIfSimpleArray
<1>1. ArrayInv => AsIfSimpleArray
  BY DEF ArrayInv
<1> QED
  BY <1>1, ArrayInvInit, ArrayInvNext, PTL DEF ArraySpec

(* The links, the three places and the running call keep their types.        *)
THEOREM ArrayTypeCorrect == ArraySpec => []ArrayTypeOK
<1>1. ArrayInv => ArrayTypeOK
  <2> SUFFICES ASSUME ArrayInv PROVE ArrayTypeOK
    OBVIOUS
  <2>1. MaxIndex \in Nat
    BY ArrayAssumption
  <2>2. \A a \in 0 .. size : a \in Nodes /\ (a # size => a + 1 \in Nodes)
                                         /\ (a # 0 => a - 1 \in Nodes)
    BY <2>1 DEF ArrayInv, Linked, Nodes
  <2> QED
    BY <2>2 DEF ArrayInv, Linked, PlacesKept, WalkOnCourse, ArrayTypeOK, Links
<1> QED
  BY <1>1, ArrayInvInit, ArrayInvNext, PTL DEF ArraySpec

-----------------------------------------------------------------------------
(***************************************************************************)
(* ParMinimise for any machines and any number of ranks: the sends and     *)
(* receives of rank 0 and of the others meet.                              *)
(*                                                                         *)
(* Lockstep says what is on the way between rank 0 and a rank; it does not *)
(* say where the rank is while rank 0 is elsewhere.  The invariant does,   *)
(* for each of rank 0's phases: what the rank waits for, what is on the    *)
(* way to it and from it, and on which label it works, one ahead of rank 0 *)
(* once it has worked out the last numbers of a label.                     *)
(***************************************************************************)
(* A queue of one message, and of two.                                       *)
One(q, tag)    == q = <<q[1]>> /\ q[1].tag = tag
Two(q, t1, t2) == q = <<q[1], q[2]>> /\ q[1].tag = t1 /\ q[2].tag = t2

(* Rank r waits for a tag with nothing on the way.                           *)
Waits(r, tag) == worker[r].wait = tag /\ inbox[r] = <<>> /\ outbox[r] = <<>>
(* What it waits for is on the way.                                          *)
Served(r, tag) == worker[r].wait = tag /\ One(inbox[r], tag) /\ outbox[r] = <<>>
(* What it answered is on the way, and it waits for the next tag.            *)
Replied(r, answer, tag) ==
    worker[r].wait = tag /\ inbox[r] = <<>> /\ One(outbox[r], answer)

Running == master \notin {"read", "setup", "aborted"}

(* The label of the next numbering of the blocks.                            *)
LabelAfter == IF D < fm.l THEN D + 1 ELSE 1

(* Where rank r is when rank 0 sends its next tag, or gathers the answers:   *)
(* in a gathering, those with a slice have been heard.                       *)
Heard(r) == Len(slices) >= r

InPhase(r) ==
    /\ master = "blocks" => Waits(r, "blocks") \/ Served(r, "setup")
    /\ master = "hash" =>
          \/ ~ Heard(r) /\ worker[r].wait = "setup" /\ Two(inbox[r], "setup", "blocks")
                         /\ outbox[r] = <<>>
          \/ ~ Heard(r) /\ Served(r, "blocks")
          \/ ~ Heard(r) /\ Replied(r, "hash", "hashes")
          \/ Heard(r) /\ Waits(r, "hashes")
    /\ master = "count" =>
          \/ ~ Heard(r) /\ (Served(r, "hashes") \/ Replied(r, "count", "sum"))
          \/ Heard(r) /\ Waits(r, "sum")
    /\ master = "newb" =>
          \/ ~ Heard(r) /\ (Served(r, "sum") \/ Replied(r, "newb", "numbers"))
          \/ Heard(r) /\ Waits(r, "numbers")
    /\ master = "block" =>
          \/ ~ Heard(r) /\ (Served(r, "numbers") \/ Replied(r, "block", "blocks"))
          \/ Heard(r) /\ Waits(r, "blocks")
    /\ master \in {"print", "done"} => Waits(r, "blocks")

(* A rank that has worked out its new numbers is one label ahead of rank 0.  *)
OnLabel(r) ==
    worker[r].label = IF master = "block" /\ worker[r].wait = "blocks" THEN LabelAfter ELSE D

IsSequence(s) == s \in Seq({ s[i] : i \in DOMAIN s })

Untouched(r) == Waits(r, "setup") /\ worker[r].label = 1

NetworkTyped ==
    /\ master \in {"read", "setup", "aborted", "blocks", "hash", "count", "newb", "block",
                   "print", "done"}
    /\ IsSequence(slices)
    /\ DOMAIN worker = AllRanks /\ DOMAIN inbox = AllRanks /\ DOMAIN outbox = AllRanks
    /\ \A r \in AllRanks : DOMAIN worker[r] = DOMAIN Idle

(* The state of a rank at any time.                                          *)
At(r) ==
    \/ ~ Running /\ Untouched(r)
    \/ Running /\ r \notin Ranks /\ Untouched(r)
    \/ Running /\ r \in Ranks /\ worker[r].wait = "left"
    \/ Running /\ r \in Ranks /\ InPhase(r) /\ OnLabel(r)

LockInv ==
    /\ NetworkTyped
    /\ master \in {"read", "setup", "aborted", "blocks"} => slices = <<>>
    /\ master \in {"read", "setup", "aborted"} => D = 1
    /\ \A r \in AllRanks : At(r)

(* Queues of messages.                                                       *)
LEMMA QueueOfOne ==
    ASSUME NEW q, NEW tag, One(q, tag)
    PROVE  q # <<>> /\ Len(q) = 1 /\ Head(q).tag = tag /\ Tail(q) = <<>>
<1> DEFINE x == q[1]
<1>1. q = <<x>> /\ x.tag = tag
  BY DEF One
<1> HIDE DEF x
<1> QED
  BY <1>1

LEMMA QueueOfTwo ==
    ASSUME NEW q, NEW t1, NEW t2, Two(q, t1, t2)
    PROVE  q # <<>> /\ Len(q) = 2 /\ Head(q).tag = t1 /\ One(Tail(q), t2)
<1> DEFINE x == q[1]
           y == q[2]
<1>1. q = <<x, y>> /\ x.tag = t1 /\ y.tag = t2
  BY DEF Two
<1> HIDE DEF x, y
<1>2. Tail(q) = <<y>>
  BY <1>1
<1> QED
  BY <1>1, <1>2 DEF One

LEMMA MessageToNobody ==
    ASSUME NEW m
    PROVE  One(Append(<<>>, m), m.tag) /\ One(<<>> \o <<m>>, m.tag)
<1>1. Append(<<>>, m) = <<m>> /\ <<>> \o <<m>> = <<m>>
  OBVIOUS
<1> QED
  BY <1>1 DEF One

LEMMA MessageBehindOne ==
    ASSUME NEW q, NEW m, NEW tag, One(q, tag)
    PROVE  Two(Append(q, m), tag, m.tag)
<1> DEFINE x == q[1]
           p == Append(q, m)
<1>1. q = <<x>> /\ x.tag = tag
  BY DEF One
<1> HIDE DEF x
<1>2. q \in Seq({x, m}) /\ <<x, m>> \in Seq({x, m}) /\ Len(q) = 1 /\ Len(<<x, m>>) = 2
  BY <1>1
<1>3. p \in Seq({x, m}) /\ Len(p) = 2 /\ p[1] = x /\ p[2] = m
  BY <1>1, <1>2
<1> HIDE DEF p
<1>4. p = <<x, m>>
  <2>1. \A i \in 1 .. 2 : p[i] = <<x, m>>[i]
    BY <1>3
  <2> QED
    BY <1>2, <1>3, <2>1, SeqEqual
<1> QED
  BY <1>1, <1>4 DEF Two, p

LEMMA AppendToSequence ==
    ASSUME NEW s, NEW x, IsSequence(s)
    PROVE  IsSequence(Append(s, x)) /\ Len(Append(s, x)) = Len(s) + 1
<1> DEFINE S == { s[i] : i \in DOMAIN s }
           t == Append(s, x)
           T == { t[i] : i \in DOMAIN t }
<1>1. s \in Seq(S) /\ s \in Seq(S \cup {x})
  BY DEF IsSequence
<1>2. t \in Seq(S \cup {x}) /\ Len(t) = Len(s) + 1
  BY <1>1
<1>3. t \in Seq(T)
  BY <1>2
<1> QED
  BY <1>2, <1>3 DEF IsSequence

LEMMA RankNumbers ==
    /\ \A r \in AllRanks : r \in Int /\ r >= 1
    /\ \A r \in Ranks : r \in Int /\ r >= 1 /\ r <= Needed
BY DEF AllRanks, Ranks

LEMMA LockInvInit == ParInit => LockInv
<1> SUFFICES ASSUME ParInit PROVE LockInv
  OBVIOUS
<1>1. IsSequence(slices)
  BY DEF ParInit, IsSequence
<1>2. NetworkTyped /\ ~ Running
  BY <1>1 DEF ParInit, NetworkTyped, Running
<1>3. \A r \in AllRanks : Untouched(r)
  BY DEF ParInit, Untouched, Waits, Idle
<1> QED
  BY <1>2, <1>3 DEF ParInit, LockInv, At

LEMMA LockInvLockstep == LockInv => Lockstep
<1> SUFFICES ASSUME LockInv, NEW r \in AllRanks, worker[r].wait # "left"
             PROVE  /\ Len(inbox[r]) + Len(outbox[r]) <= IF worker[r].wait = "setup" THEN 2 ELSE 1
                    /\ inbox[r] # <<>> => Head(inbox[r]).tag = worker[r].wait
                    /\ outbox[r] # <<>> => Head(outbox[r]).tag = master /\ Len(slices) < r
                    /\ worker[r].wait \in {"hashes", "sum", "numbers"} => worker[r].label = D
  BY DEF Lockstep
<1>1. Len(slices) \in Nat /\ r \in Int /\ Len(<<>>) = 0
  BY RankNumbers DEF LockInv, NetworkTyped, IsSequence
<1>2. CASE Untouched(r)
  BY <1>1, <1>2 DEF Untouched, Waits
<1>3. CASE Running /\ r \in Ranks /\ InPhase(r) /\ OnLabel(r)
  <2>1. master \in {"blocks", "hash", "count", "newb", "block", "print", "done"}
    BY <1>3 DEF LockInv, NetworkTyped, Running
  <2>2. \A tag : Waits(r, tag) => Len(inbox[r]) + Len(outbox[r]) = 0
    BY <1>1 DEF Waits
  <2>3. \A tag : Served(r, tag) => /\ Len(inbox[r]) + Len(outbox[r]) = 1
                                   /\ Head(inbox[r]).tag = tag
    BY <1>1, QueueOfOne DEF Served
  <2>4. \A a, tag : Replied(r, a, tag) => /\ Len(inbox[r]) + Len(outbox[r]) = 1
                                          /\ Head(outbox[r]).tag = a
    BY <1>1, QueueOfOne DEF Replied
  <2>5. Two(inbox[r], "setup", "blocks") /\ outbox[r] = <<>> =>
            Len(inbox[r]) + Len(outbox[r]) = 2 /\ Head(inbox[r]).tag = "setup"
    BY <1>1, QueueOfTwo
  <2>6. Len(slices) < r <=> ~ Heard(r)
    BY <1>1 DEF Heard
  <2>7. Len(inbox[r]) + Len(outbox[r]) <= IF worker[r].wait = "setup" THEN 2 ELSE 1
    <3> DEFINE n == Len(inbox[r]) + Len(outbox[r])
    <3>1. n = 0 \/ n = 1 \/ (n = 2 /\ worker[r].wait = "setup")
      BY <1>3, <2>1, <2>2, <2>3, <2>4, <2>5 DEF InPhase
    <3> HIDE DEF n
    <3>2. n <= IF worker[r].wait = "setup" THEN 2 ELSE 1
      BY <3>1
    <3> QED
      BY <3>2 DEF n
  <2>8. inbox[r] # <<>> => Head(inbox[r]).tag = worker[r].wait
    BY <1>3, <2>1, <2>3, <2>5 DEF InPhase, Waits, Served, Replied
  <2>9. outbox[r] # <<>> => Head(outbox[r]).tag = master /\ Len(slices) < r
    BY <1>3, <2>1, <2>4, <2>6 DEF InPhase, Waits, Served, Replied
  <2>10. worker[r].wait \in {"hashes", "sum", "numbers"} => worker[r].label = D
    BY <1>3 DEF OnLabel
  <2> QED
    BY <2>7, <2>8, <2>9, <2>10
<1> QED
  BY <1>2, <1>3 DEF LockInv, At

(***************************************************************************)
(* The steps of a rank.                                                    *)
(***************************************************************************)
(* A rank's step shows only in its own queues.                               *)
LEMMA OtherRanksStay ==
    ASSUME LockInv, NEW r \in AllRanks, NEW w, NEW reply, Step(r, w, reply),
           DOMAIN w = DOMAIN Idle, At(r)'
    PROVE  LockInv'
<1>1. /\ UNCHANGED <<fm, master, D, slices>>
      /\ inbox' = [inbox EXCEPT ![r] = Tail(@)]
      /\ worker' = [worker EXCEPT ![r] = w]
      /\ outbox' = [outbox EXCEPT ![r] = @ \o reply]
  BY DEF Step, masterVars
<1>2. NetworkTyped'
  BY <1>1 DEF LockInv, NetworkTyped
<1>3. ASSUME NEW q \in AllRanks PROVE At(q)'
  <2>1. CASE q = r
    BY <2>1
  <2>2. CASE q # r
    <3>1. worker'[q] = worker[q] /\ inbox'[q] = inbox[q] /\ outbox'[q] = outbox[q]
      BY <1>1, <2>2, <1>3 DEF LockInv, NetworkTyped
    <3>2. At(q)
      BY <1>3 DEF LockInv
    <3> QED
      BY <1>1, <3>1, <3>2 DEF At, Running, Ranks, Needed, PerRank, Untouched, InPhase, OnLabel,
             LabelAfter, Heard, Waits, Served, Replied
  <2> QED
    BY <2>1, <2>2
<1> QED
  BY <1>1, <1>2, <1>3 DEF LockInv

LEMMA StepHere ==
    ASSUME LockInv, NEW r \in AllRanks, NEW w, NEW reply, Step(r, w, reply)
    PROVE  /\ UNCHANGED <<fm, master, D, slices>>
           /\ worker'[r] = w /\ inbox'[r] = Tail(inbox[r]) /\ outbox'[r] = outbox[r] \o reply
BY DEF Step, masterVars, LockInv, NetworkTyped

(* What a rank can be doing when a message is delivered to it.               *)
LEMMA DeliveredInPhase ==
    ASSUME LockInv, NEW r \in AllRanks, NEW tag, Delivered(r, tag), tag # "left"
    PROVE  /\ Running /\ r \in Ranks /\ outbox[r] = <<>> /\ OnLabel(r)
           /\ IF tag = "setup" /\ master = "hash" THEN Two(inbox[r], "setup", "blocks")
                                                  ELSE Served(r, tag)
           /\ tag = "setup"   => master \in {"blocks", "hash"}
           /\ tag = "blocks"  => master = "hash"
           /\ tag = "hashes"  => master = "count"
           /\ tag = "sum"     => master = "newb"
           /\ tag = "numbers" => master = "block"
           /\ master # "blocks" => ~ Heard(r)
<1>1. worker[r].wait = tag /\ inbox[r] # <<>> /\ Head(inbox[r]).tag = tag
  BY DEF Delivered
<1>2. ~ Untouched(r)
  BY <1>1 DEF Untouched, Waits
<1>3. Running /\ r \in Ranks /\ InPhase(r) /\ OnLabel(r)
  BY <1>1, <1>2 DEF LockInv, At
<1>4. master \in {"blocks", "hash", "count", "newb", "block", "print", "done"}
  BY <1>3 DEF LockInv, NetworkTyped, Running
<1>5. \A t : ~ Waits(r, t)
  BY <1>1 DEF Waits
<1>6. \A a, t : ~ Replied(r, a, t)
  BY <1>1 DEF Replied
<1>7. \A t : Served(r, t) => t = tag /\ outbox[r] = <<>>
  BY <1>1 DEF Served
<1> QED
  BY <1>1, <1>3, <1>4, <1>5, <1>6, <1>7 DEF InPhase

LEMMA TakeSetupKeeps ==
    ASSUME LockInv, NEW r \in AllRanks, TakeSetup(r)
    PROVE  LockInv'
<1> DEFINE w == [worker[r] EXCEPT !.cb = Data(r), !.wait = "blocks"]
<1>1. Delivered(r, "setup") /\ Step(r, w, <<>>)
  BY DEF TakeSetup
<1>2. DOMAIN worker[r] = DOMAIN Idle
  BY DEF LockInv, NetworkTyped
<1>3. w.wait = "blocks" /\ w.label = worker[r].label /\ DOMAIN w = DOMAIN Idle
  BY <1>2 DEF Idle
<1> HIDE DEF w
<1>4. /\ UNCHANGED <<fm, master, D, slices>>
      /\ worker'[r] = w /\ inbox'[r] = Tail(inbox[r]) /\ outbox'[r] = outbox[r] \o <<>>
  BY <1>1, StepHere
<1>5. /\ Running /\ r \in Ranks /\ outbox[r] = <<>> /\ OnLabel(r)
      /\ IF master = "hash" THEN Two(inbox[r], "setup", "blocks") ELSE Served(r, "setup")
      /\ master \in {"blocks", "hash"}
      /\ master # "blocks" => ~ Heard(r)
  BY <1>1, DeliveredInPhase
<1>6. outbox'[r] = <<>>
  BY <1>4, <1>5
<1>7. InPhase(r)'
  <2>1. CASE master = "blocks"
    <3>1. Waits(r, "blocks")'
      BY <1>3, <1>4, <1>5, <1>6, <2>1, QueueOfOne DEF Served, Waits
    <3> QED
      BY <1>4, <2>1, <3>1 DEF InPhase
  <2>2. CASE master = "hash"
    <3>1. Served(r, "blocks")'
      BY <1>3, <1>4, <1>5, <1>6, <2>2, QueueOfTwo DEF Served
    <3> QED
      BY <1>4, <1>5, <2>2, <3>1 DEF InPhase, Heard
  <2> QED
    BY <1>5, <2>1, <2>2
<1>8. OnLabel(r)'
  BY <1>3, <1>4, <1>5 DEF OnLabel
<1>9. At(r)'
  BY <1>4, <1>5, <1>7, <1>8 DEF At, Running, Ranks, Needed, PerRank
<1> QED
  BY <1>1, <1>3, <1>9, OtherRanksStay

(* A delivery of what is waited for alone, answered with one message.        *)
LEMMA ReplyKeeps ==
    ASSUME LockInv, NEW r \in AllRanks, NEW tag, Delivered(r, tag),
           tag \in {"blocks", "hashes", "sum", "numbers"},
           NEW w, DOMAIN w = DOMAIN Idle, NEW m, Step(r, w, <<m>>), m.tag = master,
           w.wait # "left" =>
               /\ w.wait = CASE tag = "blocks" -> "hashes"
                             [] tag = "hashes" -> "sum"
                             [] tag = "sum"    -> "numbers"
                             [] OTHER          -> "blocks"
               /\ w.label = IF tag = "numbers" THEN LabelAfter ELSE worker[r].label
    PROVE  LockInv'
<1>4. /\ UNCHANGED <<fm, master, D, slices>>
      /\ worker'[r] = w /\ inbox'[r] = Tail(inbox[r]) /\ outbox'[r] = outbox[r] \o <<m>>
  BY StepHere
<1>5. /\ Running /\ r \in Ranks /\ outbox[r] = <<>> /\ OnLabel(r)
      /\ Served(r, tag) /\ ~ Heard(r)
      /\ tag = "blocks"  => master = "hash"
      /\ tag = "hashes"  => master = "count"
      /\ tag = "sum"     => master = "newb"
      /\ tag = "numbers" => master = "block"
  BY DeliveredInPhase
<1>6. /\ One(outbox[r], master)' /\ inbox'[r] = <<>>
  BY <1>4, <1>5, MessageToNobody, QueueOfOne DEF Served
<1>7. (Running /\ r \in Ranks /\ ~ Heard(r))'
  BY <1>4, <1>5 DEF Running, Ranks, Needed, PerRank, Heard
<1>8. CASE w.wait = "left"
  <2>1. At(r)'
    BY <1>4, <1>7, <1>8 DEF At
  <2> QED
    BY <2>1, OtherRanksStay
<1>9. CASE w.wait # "left"
  <2>1. Replied(r, master, w.wait)'
    BY <1>4, <1>6 DEF Replied
  <2>2. InPhase(r)'
    BY <1>4, <1>5, <1>7, <1>9, <2>1 DEF InPhase
  <2>3. OnLabel(r)'
    BY <1>4, <1>5, <1>9 DEF OnLabel, LabelAfter, Served
  <2>4. At(r)'
    BY <1>7, <2>2, <2>3 DEF At
  <2> QED
    BY <2>4, OtherRanksStay
<1> QED
  BY <1>8, <1>9

LEMMA RankStepKeeps ==
    ASSUME LockInv, NEW r \in AllRanks, RankStep(r)
    PROVE  LockInv'
<1> DEFINE W == worker[r]
<1>1. DOMAIN W = DOMAIN Idle
  BY DEF LockInv, NetworkTyped
<1>2. \A tag, data : Message(tag, data).tag = tag
  BY DEF Message
<1>3. CASE TakeSetup(r)
  BY <1>3, TakeSetupKeeps
<1>4. CASE HashStates(r)
  <2> DEFINE w == [W EXCEPT !.b = Data(r), !.wait = "hashes"]
             m == Message("hash", [s \in Slice(r) |-> Hash(Data(r), s, W.label)])
  <2>1. Delivered(r, "blocks") /\ Step(r, w, <<m>>)
    BY <1>4 DEF HashStates
  <2>2. w.wait = "hashes" /\ w.label = W.label /\ DOMAIN w = DOMAIN Idle /\ m.tag = "hash"
    BY <1>1, <1>2 DEF Idle
  <2> HIDE DEF w, m
  <2>3. master = "hash"
    BY <2>1, DeliveredInPhase
  <2> QED
    BY <2>1, <2>2, <2>3, ReplyKeeps
<1>5. CASE CountPresent(r)
  <2> DEFINE w == [W EXCEPT !.h = Data(r).h, !.B = Data(r).B, !.wait = "sum"]
             m == Message("count", Cardinality(Present(Data(r).h, Interval(r, Data(r).B))))
  <2>1. Delivered(r, "hashes") /\ Step(r, w, <<m>>)
    BY <1>5 DEF CountPresent
  <2>2. w.wait = "sum" /\ w.label = W.label /\ DOMAIN w = DOMAIN Idle /\ m.tag = "count"
    BY <1>1, <1>2 DEF Idle
  <2> HIDE DEF w, m
  <2>3. master = "count"
    BY <2>1, DeliveredInPhase
  <2> QED
    BY <2>1, <2>2, <2>3, ReplyKeeps
<1>6. CASE NumberPresent(r)
  <2> DEFINE I == Interval(r, worker[r].B)
             P == Present(worker[r].h, I)
             w == [W EXCEPT !.wait = "numbers"]
             m == Message("newb", [v \in I |->
                    IF v \in P THEN Data(r) + Cardinality({ x \in P : x <= v }) ELSE 0])
  <2>1. Delivered(r, "sum") /\ Step(r, w, <<m>>)
    BY <1>6 DEF NumberPresent
  <2>2. w.wait = "numbers" /\ w.label = W.label /\ DOMAIN w = DOMAIN Idle /\ m.tag = "newb"
    BY <1>1, <1>2 DEF Idle
  <2> HIDE DEF w, m
  <2>3. master = "newb"
    BY <2>1, DeliveredInPhase
  <2> QED
    BY <2>1, <2>2, <2>3, ReplyKeeps
<1>7. CASE UpdateBlocks(r)
  <2> DEFINE b == NewBlocks(r)
             m == Message("block", [s \in Slice(r) |-> b[s]])
             u == [W EXCEPT !.b = b, !.label = @ + 1, !.wait = "blocks"]
             v == [W EXCEPT !.b = b, !.label = 1, !.cb = b,
                            !.wait = IF W.cb # b THEN "blocks" ELSE "left"]
             w == IF W.label < fm.l THEN u ELSE v
  <2>1. Delivered(r, "numbers") /\ Step(r, w, <<m>>)
    BY <1>7 DEF UpdateBlocks
  <2>2. /\ m.tag = "block" /\ DOMAIN u = DOMAIN Idle /\ DOMAIN v = DOMAIN Idle
        /\ u.wait = "blocks" /\ u.label = W.label + 1
        /\ v.wait \in {"blocks", "left"} /\ v.label = 1
    BY <1>1, <1>2 DEF Idle
  <2> HIDE DEF u, v, m
  <2>3. /\ DOMAIN w = DOMAIN Idle /\ w.wait \in {"blocks", "left"}
        /\ w.label = IF W.label < fm.l THEN W.label + 1 ELSE 1
    BY <2>2
  <2> HIDE DEF w
  <2>4. master = "block" /\ W.label = D
    BY <2>1, DeliveredInPhase DEF OnLabel, Delivered
  <2> QED
    BY <2>1, <2>2, <2>3, <2>4, ReplyKeeps DEF LabelAfter
<1> QED
  BY <1>3, <1>4, <1>5, <1>6, <1>7 DEF RankStep

(***************************************************************************)
(* The steps of rank 0.                                                    *)
(***************************************************************************)
(* The ranks it does not write to: none, as long as the job has not begun.   *)
LEMMA IdleMasterKeeps ==
    ASSUME LockInv, UNCHANGED <<D, slices, worker, inbox, outbox>>,
           \/ ~ Running /\ ~ Running' /\ slices = <<>> /\ D = 1
           \/ master = "print" /\ master' = "done" /\ UNCHANGED fm,
           master' \in {"setup", "aborted", "done"}
    PROVE  LockInv'
<1>1. NetworkTyped'
  BY DEF LockInv, NetworkTyped
<1>2. ASSUME NEW r \in AllRanks PROVE At(r)'
  <2>1. At(r)
    BY <1>2 DEF LockInv
  <2>2. CASE ~ Running /\ ~ Running'
    BY <2>1, <2>2 DEF At, Untouched, Waits
  <2>3. CASE master = "print" /\ master' = "done" /\ UNCHANGED fm
    BY <2>1, <2>3 DEF At, Running, Ranks, Needed, PerRank, Untouched, InPhase, OnLabel, Waits
  <2> QED
    BY <2>2, <2>3
<1> QED
  BY <1>1, <1>2 DEF LockInv

(* One more message for each rank in use.                                    *)
LEMMA SendAllKeeps ==
    ASSUME LockInv, NEW tag, NEW nextTag,
           UNCHANGED <<fm, D, worker, outbox>>, slices' = <<>>, master' = nextTag,
           DOMAIN inbox' = AllRanks,
           \A r \in AllRanks : IF r \in Ranks
               THEN \E m : m.tag = tag /\ inbox'[r] = Append(inbox[r], m)
               ELSE inbox'[r] = inbox[r],
           \/ master = "setup" /\ tag = "setup" /\ nextTag = "blocks"
           \/ master = "blocks" /\ tag = "blocks" /\ nextTag = "hash"
           \/ Gathered("hash") /\ tag = "hashes" /\ nextTag = "count"
           \/ Gathered("count") /\ tag = "sum" /\ nextTag = "newb"
           \/ Gathered("newb") /\ tag = "numbers" /\ nextTag = "block"
    PROVE  LockInv'
<1>1. NetworkTyped'
  <2>1. IsSequence(slices')
    BY DEF IsSequence
  <2> QED
    BY <2>1 DEF LockInv, NetworkTyped, Gathered, IsSequence
<1>2. Running'
  BY DEF Running
<1>3. ASSUME NEW r \in AllRanks PROVE At(r)'
  <2>1. At(r) /\ r \in Int /\ r >= 1
    BY <1>3, RankNumbers DEF LockInv
  <2>2. CASE r \notin Ranks
    <3>1. Untouched(r)' /\ (r \notin Ranks)'
      BY <2>1, <2>2 DEF At, Untouched, Waits, Ranks, Needed, PerRank
    <3> QED
      BY <1>2, <3>1 DEF At
  <2>3. CASE r \in Ranks
    <3>1. (r \in Ranks)'
      BY <2>3 DEF Ranks, Needed, PerRank
    <3>2. CASE worker[r].wait = "left"
      BY <1>2, <3>1, <3>2 DEF At
    <3>3. CASE worker[r].wait # "left"
      <4>1. PICK m : m.tag = tag /\ inbox'[r] = Append(inbox[r], m)
        BY <1>3, <2>3
      <4>2. ~ Heard(r)'
        BY <2>1 DEF Heard
      <4>3. \A t : Waits(r, t) /\ tag = t => Served(r, t)'
        BY <4>1, MessageToNobody DEF Waits, Served
      <4>4. InPhase(r)' /\ OnLabel(r)'
        <5>1. CASE master = "setup" /\ tag = "setup" /\ nextTag = "blocks"
          <6>1. Waits(r, "setup") /\ worker[r].label = D
            BY <2>1, <5>1 DEF At, Running, Untouched, LockInv
          <6> QED
            BY <4>3, <5>1, <6>1 DEF InPhase, OnLabel
        <5>2. CASE master = "blocks" /\ tag = "blocks" /\ nextTag = "hash"
          <6>1. InPhase(r) /\ OnLabel(r)
            BY <2>1, <2>3, <3>3, <5>2 DEF At, Running
          <6>2. Served(r, "setup") => /\ Two(inbox[r], "setup", "blocks")'
                                      /\ worker[r].wait = "setup" /\ outbox[r] = <<>>
            BY <4>1, <5>2, MessageBehindOne DEF Served
          <6>3. Waits(r, "blocks") => Served(r, "blocks")'
            BY <4>3, <5>2
          <6> QED
            BY <4>2, <5>2, <6>1, <6>2, <6>3 DEF InPhase, OnLabel
        <5>3. CASE /\ Gathered(master)
                   /\ \/ master = "hash" /\ tag = "hashes" /\ nextTag = "count"
                      \/ master = "count" /\ tag = "sum" /\ nextTag = "newb"
                      \/ master = "newb" /\ tag = "numbers" /\ nextTag = "block"
          <6>1. InPhase(r) /\ OnLabel(r)
            BY <2>1, <2>3, <3>3, <5>3 DEF At, Running
          <6>2. Heard(r)
            <7>1. Len(slices) = Needed /\ r <= Needed
              BY <2>3, <5>3 DEF Gathered, Ranks
            <7> QED
              BY <2>1, <7>1 DEF Heard
          <6>3. Waits(r, tag)
            BY <5>3, <6>1, <6>2 DEF InPhase
          <6>4. Served(r, tag)'
            BY <4>3, <6>3
          <6>5. worker'[r].wait = tag
            BY <6>3 DEF Waits
          <6> QED
            BY <4>2, <5>3, <6>1, <6>4, <6>5 DEF InPhase, OnLabel
        <5> QED
          BY <5>1, <5>2, <5>3 DEF Gathered
      <4> QED
        BY <1>2, <3>1, <4>4 DEF At
    <3> QED
      BY <3>2, <3>3
  <2> QED
    BY <2>2, <2>3
<1> QED
  BY <1>1, <1>2, <1>3 DEF LockInv, Running

LEMMA GatherKeeps ==
    ASSUME LockInv, NEW tag \in Gathering, Gather(tag)
    PROVE  LockInv'
<1> DEFINE q == Len(slices) + 1
<1>1. /\ master = tag /\ q \in Ranks /\ outbox[q] # <<>> /\ Head(outbox[q]).tag = tag
      /\ slices' = Append(slices, Head(outbox[q]).data)
      /\ outbox' = [outbox EXCEPT ![q] = Tail(@)]
      /\ UNCHANGED <<fm, master, D, worker, inbox>>
  BY DEF Gather
<1>2. Len(slices) \in Nat /\ Len(slices') = Len(slices) + 1 /\ IsSequence(slices')
  <2>1. IsSequence(slices)
    BY DEF LockInv, NetworkTyped
  <2>2. Len(slices) \in Nat
    BY <2>1 DEF IsSequence
  <2> QED
    BY <1>1, <2>1, <2>2, AppendToSequence
<1> HIDE DEF q
<1>3. NetworkTyped' /\ Running /\ Running'
  BY <1>1, <1>2 DEF LockInv, NetworkTyped, Running, Gathering
<1>4. ASSUME NEW r \in AllRanks PROVE At(r)'
  <2>1. At(r) /\ r \in Int
    BY <1>4, RankNumbers DEF LockInv
  <2>2. CASE r # q
    <3>1. outbox'[r] = outbox[r]
      BY <1>1, <1>4, <2>2 DEF LockInv, NetworkTyped
    <3>2. Heard(r)' <=> Heard(r)
      BY <1>2, <2>1, <2>2 DEF Heard, q
    <3> QED
      BY <1>1, <1>3, <2>1, <3>1, <3>2 DEF At, Ranks, Needed, PerRank, Untouched, InPhase, OnLabel,
             LabelAfter, Waits, Served, Replied
  <2>3. CASE r = q
    <3>1. ~ Heard(r) /\ Heard(r)'
      BY <1>2, <2>1, <2>3 DEF Heard, q
    <3>2. (r \in Ranks)'
      BY <1>1, <2>3 DEF Ranks, Needed, PerRank
    <3>3. CASE worker[r].wait = "left"
      BY <1>1, <1>3, <3>2, <3>3 DEF At
    <3>4. CASE worker[r].wait # "left"
      <4>1. InPhase(r) /\ OnLabel(r)
        BY <1>1, <1>3, <2>1, <2>3, <3>4 DEF At
      <4>2. PICK t : Replied(r, tag, t) /\ t = CASE tag = "hash" -> "hashes" [] tag = "count" -> "sum"
                                                   [] tag = "newb" -> "numbers" [] OTHER -> "blocks"
        BY <1>1, <2>3, <3>1, <4>1 DEF InPhase, Served, Gathering
      <4>3. outbox'[r] = <<>>
        BY <1>1, <1>4, <2>3, <4>2, QueueOfOne DEF Replied, LockInv, NetworkTyped
      <4>4. Waits(r, t)'
        BY <1>1, <4>2, <4>3 DEF Waits, Replied
      <4>5. InPhase(r)'
        BY <1>1, <3>1, <4>2, <4>4 DEF InPhase, Gathering
      <4>6. OnLabel(r)'
        BY <1>1, <4>1 DEF OnLabel, LabelAfter
      <4> QED
        BY <1>3, <3>2, <4>5, <4>6 DEF At
    <3> QED
      BY <3>3, <3>4
  <2> QED
    BY <2>2, <2>3
<1> QED
  BY <1>1, <1>3, <1>4 DEF LockInv, Gathering

LEMMA NextLabelKeeps ==
    ASSUME LockInv, NextLabel
    PROVE  LockInv'
<1>1. /\ Gathered("block") /\ slices' = <<>> /\ UNCHANGED <<fm, worker, inbox, outbox>>
      /\ D' = LabelAfter /\ master' \in {"blocks", "print"}
  BY DEF NextLabel, LabelAfter
<1>2. NetworkTyped' /\ Running /\ Running'
  BY <1>1 DEF LockInv, NetworkTyped, Running, Gathered, IsSequence
<1>3. ASSUME NEW r \in AllRanks PROVE At(r)'
  <2>1. At(r) /\ r \in Int
    BY <1>3, RankNumbers DEF LockInv
  <2>2. (r \in Ranks)' <=> r \in Ranks
    BY <1>1 DEF Ranks, Needed, PerRank
  <2>3. CASE r \in Ranks /\ worker[r].wait # "left"
    <3>1. InPhase(r) /\ OnLabel(r)
      BY <1>2, <2>1, <2>3 DEF At
    <3>2. Heard(r) /\ master = "block"
      BY <1>1, <2>3 DEF Heard, Ranks, Gathered
    <3>3. Waits(r, "blocks") /\ worker[r].label = LabelAfter
      BY <3>1, <3>2 DEF InPhase, OnLabel, Waits
    <3>4. InPhase(r)' /\ OnLabel(r)'
      BY <1>1, <3>3 DEF InPhase, OnLabel, Waits
    <3> QED
      BY <1>2, <2>2, <2>3, <3>4 DEF At
  <2>4. CASE r \notin Ranks \/ worker[r].wait = "left"
    BY <1>1, <1>2, <2>1, <2>2, <2>4 DEF At, Untouched, Waits
  <2> QED
    BY <2>3, <2>4
<1> QED
  BY <1>1, <1>2, <1>3 DEF LockInv, Running

LEMMA LockInvNext == LockInv /\ ParNext => LockInv'
<1> SUFFICES ASSUME LockInv, ParNext PROVE LockInv'
  OBVIOUS
<1>1. ASSUME NEW m \in MachineFiles, NEW c \in ProcCounts, ReadMachine(m, c) PROVE LockInv'
  BY <1>1, IdleMasterKeeps DEF ReadMachine, Running, LockInv
<1>2. CASE TooFewRanks
  BY <1>2, IdleMasterKeeps DEF TooFewRanks, Running, LockInv
<1>3. CASE PrintMachine
  BY <1>3, IdleMasterKeeps DEF PrintMachine, Running, LockInv
<1>4. \A t, data : Message(t, data).tag = t
  BY DEF Message
<1>5. CASE SendSetup
  BY <1>4, <1>5, SendAllKeeps DEF SendSetup, SendAll
<1>6. CASE SendBlocks
  BY <1>4, <1>6, SendAllKeeps DEF SendBlocks, SendAll
<1>7. CASE SendHashes
  BY <1>4, <1>7, SendAllKeeps DEF SendHashes, SendAll
<1>8. CASE SendSums
  BY <1>4, <1>8, SendAllKeeps DEF SendSums, SendAll
<1>9. CASE SendNumbers
  BY <1>4, <1>9, SendAllKeeps DEF SendNumbers, SendAll
<1>10. ASSUME NEW tag \in {"hash", "count", "newb", "block"}, Gather(tag) PROVE LockInv'
  BY <1>10, GatherKeeps DEF Gathering
<1>11. CASE NextLabel
  BY <1>11, NextLabelKeeps
<1>12. ASSUME NEW r \in AllRanks, RankStep(r) PROVE LockInv'
  BY <1>12, RankStepKeeps
<1> QED
  BY <1>1, <1>2, <1>3, <1>5, <1>6, <1>7, <1>8, <1>9, <1>10, <1>11, <1>12
     DEF ParNext, MasterStep

LEMMA LockInvStutter == LockInv /\ UNCHANGED parVars => LockInv'
BY DEF LockInv, NetworkTyped, At, Running, Ranks, Needed, PerRank, Untouched, InPhase, OnLabel,
       LabelAfter, Heard, Waits, Served, Replied, parVars, masterVars

(* parMPI.cpp never meets a receive whose message has another tag, and the   *)
(* ranks work on rank 0's label.                                             *)
THEOREM SendsMeetReceives == ParSpec => []Lockstep
BY LockInvInit, LockInvNext, LockInvStutter, LockInvLockstep, PTL DEF ParSpec

(* A set of naturals has a least element.                                    *)
LEMMA LeastOfNaturals ==
    ASSUME NEW T \in SUBSET Nat, T # {}
    PROVE  \E x \in T : \A y \in T : x <= y
<1>1. \E x \in T : \A y \in T : ~ (<<y, x>> \in OpToRel(<, Nat))
  BY NatLessThanWellFounded, WFMin, Zenon
<1>2. ASSUME NEW x \in Nat, NEW y \in Nat, x < y PROVE <<x, y>> \in OpToRel(<, Nat)
  <2>1. <<x, y>> \in Nat \X Nat /\ <<x, y>>[1] = x /\ <<x, y>>[2] = y
    OBVIOUS
  <2> QED
    BY <1>2, <2>1, Zenon DEF OpToRel
<1>3. \E x \in T : \A y \in T : ~ (y < x)
  BY <1>1, <1>2, Zenon
<1> QED
  BY <1>3

LEMMA MinOfNaturals ==
    ASSUME NEW T \in SUBSET Nat, T # {}
    PROVE  Min(T) \in T /\ \A y \in T : Min(T) <= y
BY LeastOfNaturals DEF Min

(* A set of naturals with a bound has a greatest element.                    *)
LEMMA MaxOfNaturals ==
    ASSUME NEW T \in SUBSET Nat, T # {}, NEW b \in Nat, \A x \in T : x <= b
    PROVE  Max(T) \in T /\ \A y \in T : y <= Max(T)
<1> DEFINE E == { b - x : x \in T }
<1>1. E \in SUBSET Nat /\ E # {}
  <2>1. \A x \in T : b - x \in Nat
    OBVIOUS
  <2> QED
    BY <2>1
<1>2. PICK d \in E : \A e \in E : d <= e
  BY <1>1, LeastOfNaturals
<1>3. PICK x \in T : d = b - x
  OBVIOUS
<1>4. \A y \in T : x >= y
  BY <1>2, <1>3
<1>5. Max(T) \in T /\ \A y \in T : Max(T) >= y
  BY <1>4 DEF Max
<1> QED
  BY <1>5

(* Two functions with the same values are one.                               *)
LEMMA SameFunction ==
    ASSUME NEW S, NEW R, NEW f \in [S -> R], NEW h \in [S -> R], \A x \in S : f[x] = h[x]
    PROVE  f = h
<1>1. f = [x \in S |-> f[x]] /\ h = [x \in S |-> h[x]]
  OBVIOUS
<1>2. [x \in S |-> f[x]] = [x \in S |-> h[x]]
  OBVIOUS
<1> QED
  BY <1>1, <1>2

(* Division.                                                                 *)
LEMMA Multiples ==
    ASSUME NEW p \in Nat, NEW a \in Int, NEW b \in Int, a <= b
    PROVE  p * a <= p * b
OBVIOUS

(* Division with remainder, and the quotient by its bounds.                  *)
LEMMA Quotient ==
    ASSUME NEW m \in Nat, NEW p \in Nat \ {0}
    PROVE  /\ m \div p \in Nat
           /\ p * (m \div p) <= m
           /\ m < p * (m \div p) + p
           /\ m % p = m - p * (m \div p)
OBVIOUS

LEMMA QuotientIs ==
    ASSUME NEW m \in Nat, NEW p \in Nat \ {0}, NEW c \in Nat, p * c <= m, m < p * c + p
    PROVE  m \div p = c
<1>1. DEFINE q == m \div p
<1>2. q \in Nat /\ p * q <= m /\ m < p * q + p
  BY Quotient
<1>3. ASSUME q < c PROVE FALSE
  <2>1. p * (q + 1) <= p * c
    BY <1>2, <1>3, Multiples
  <2> QED
    BY <1>2, <1>3, <2>1
<1>4. ASSUME c < q PROVE FALSE
  <2>1. p * (c + 1) <= p * q
    BY <1>2, <1>4, Multiples
  <2> QED
    BY <1>2, <1>4, <2>1
<1> QED
  BY <1>2, <1>3, <1>4

(* Powers of two exceed their exponents.                                     *)
LEMMA Powers ==
    ASSUME NEW n \in Nat
    PROVE  2 ^ n \in Nat /\ n <= 2 ^ n
<1> DEFINE S == 1 .. n
           T == { {x} : x \in S }
           P == SUBSET S
           p == 2 ^ n
<1>1. IsFiniteSet(S) /\ Cardinality(S) = n
  <2>1. 1 \in Int /\ n \in Int
    OBVIOUS
  <2>2. IsFiniteSet(S) /\ Cardinality(S) = IF 1 > n THEN 0 ELSE n - 1 + 1
    BY <2>1, FS_Interval
  <2> HIDE DEF S
  <2>3. (IF 1 > n THEN 0 ELSE n - 1 + 1) = n
    OBVIOUS
  <2> QED
    BY <2>2, <2>3
<1> HIDE DEF S
<1>2. IsFiniteSet(P) /\ Cardinality(P) = p /\ Cardinality(P) \in Nat
  <2>1. IsFiniteSet(P) /\ Cardinality(P) = p
    BY <1>1, FS_SUBSET, Zenon
  <2> QED
    BY <2>1, FS_CardinalityType
<1> DEFINE f == [x \in S |-> {x}]
<1>3. f \in Injection(S, P)
  BY DEF Injection, IsInjective
<1> HIDE DEF P, f
<1>4. Cardinality(S) <= Cardinality(P)
  BY <1>2, <1>3, FS_Injection
<1> HIDE DEF p
<1>5. p \in Nat /\ n <= p
  BY <1>1, <1>2, <1>4
<1> QED
  BY <1>5 DEF p

-----------------------------------------------------------------------------
(* The states of a rank.                                                     *)
LEMMA StatesPerRank ==
    ASSUME IsMachine(fm)
    PROVE  PerRank \in Nat \ {0}
<1> DEFINE n == fm.n
           T == { k \in Nat : n <= 2 ^ k }
<1>1. n \in Nat /\ n >= 2
  BY DEF IsMachine
<1> HIDE DEF n
<1>2. n \in T
  BY <1>1, Powers
<1>3. PICK k \in T : \A j \in T : k <= j
  BY <1>2, LeastOfNaturals
<1>4. k \in Nat /\ n <= 2 ^ k /\ k <= n
  BY <1>2, <1>3
<1>5. k # 0
  <2>1. 2 ^ 0 = 1
    <3> DEFINE E == {}
               P == SUBSET E
    <3>1. IsFiniteSet(E) /\ Cardinality(E) = 0
      BY FS_EmptySet
    <3>2. Cardinality(P) = 2 ^ 0
      BY <3>1, FS_SUBSET, Zenon
    <3>3. P = {E}
      OBVIOUS
    <3>4. Cardinality({E}) = 1
      BY FS_Singleton
    <3> QED
      BY <3>2, <3>3, <3>4, Zenon
  <2>2. CASE k = 0
    <3>1. n <= 1
      BY <1>4, <2>1, <2>2, Zenon
    <3> QED
      BY <1>1, <3>1
  <2> QED
    BY <2>2
<1>6. k - 1 \in Nat /\ ~ (k <= k - 1)
  BY <1>4, <1>5
<1> DEFINE low == 2 ^ (k - 1)
<1>7. ~ (n <= low) /\ low \in Nat
  BY <1>3, <1>6, Powers
<1>8. k \in 1 .. n /\ low < n
  <2> HIDE DEF low
  <2> QED
    BY <1>1, <1>4, <1>5, <1>7
<1>9. \E c \in 1 .. n : 2 ^ (c - 1) < n /\ n <= 2 ^ c
  BY <1>4, <1>8
<1>10. CeilLog(n) \in 1 .. n
  BY <1>9 DEF CeilLog
<1> QED
  BY <1>1, <1>10 DEF PerRank, n

(* Every state has a rank in use that looks after it.                        *)
LEMMA EveryStateHasRank ==
    ASSUME IsMachine(fm)
    PROVE  /\ Needed \in Nat \ {0} /\ fm.n <= Needed * PerRank
           /\ \A s \in States : Owner(s) \in Ranks /\ s \in Slice(Owner(s))
<1> DEFINE n == fm.n
           p == PerRank
           q == (n + p - 1) \div p
<1>1. n \in Nat /\ n >= 2 /\ p \in Nat \ {0}
  BY StatesPerRank DEF IsMachine
<1> HIDE DEF n, p
<1>2. n + p - 1 \in Nat
  BY <1>1
<1>3. q \in Nat /\ p * q <= n + p - 1 /\ n + p - 1 < p * q + p
  BY <1>1, <1>2, Quotient
<1>4. q # 0 /\ n <= q * p
  <2> HIDE DEF q
  <2>1. n - 1 < p * q
    BY <1>1, <1>3
  <2>2. q # 0
    BY <1>1, <1>3, <2>1
  <2> QED
    BY <1>1, <1>3, <2>1, <2>2
<1>5. ASSUME NEW s \in 0 .. n - 1, NEW o, o = s \div p + 1
      PROVE  o \in 1 .. q /\ (o - 1) * p <= s /\ s < o * p
  <2> DEFINE c == s \div p
  <2>1. s \in Nat /\ s <= n - 1
    BY <1>1
  <2>2. c \in Nat /\ p * c <= s /\ s < p * c + p
    BY <1>1, <2>1, Quotient
  <2> HIDE DEF c, q
  <2>3. c + 1 <= q
    <3> SUFFICES ASSUME q <= c PROVE FALSE
      BY <1>3, <2>2
    <3>1. p * q <= p * c
      BY <1>1, <1>3, <2>2, Multiples
    <3> QED
      BY <1>1, <1>3, <2>1, <2>2, <3>1
  <2>4. o = c + 1
    BY <1>5 DEF c
  <2>5. (o - 1) * p = p * c /\ o * p = p * c + p
    BY <1>1, <2>2, <2>4
  <2> QED
    BY <1>3, <2>2, <2>3, <2>4, <2>5
<1>6. Needed = q
  BY DEF Needed, n, p
<1> HIDE DEF q
<1>7. ASSUME NEW s \in States PROVE Owner(s) \in Ranks /\ s \in Slice(Owner(s))
  <2>1. PICK o : o = s \div p + 1
    OBVIOUS
  <2>2. o \in 1 .. q /\ (o - 1) * p <= s /\ s < o * p
    <3>1. s \in 0 .. n - 1
      BY DEF States, n
    <3> QED
      BY <1>5, <2>1, <3>1
  <2>3. Owner(s) = o
    BY <2>1 DEF Owner, p
  <2> QED
    BY <1>6, <2>2, <2>3 DEF Ranks, Slice, p
<1> QED
  BY <1>3, <1>4, <1>6, <1>7 DEF n, p

(* The bound of the hash values, and the intervals below it.                 *)
LEMMA BlockSizeBounds ==
    ASSUME IsMachine(fm), NEW h \in [States -> Nat], NEW b \in Nat, \A s \in States : h[s] <= b
    PROVE  /\ BlockSize(h) \in Nat \ {0}
           /\ \A s \in States : h[s] < BlockSize(h) * fm.n
<1> DEFINE n == fm.n
           T == { h[s] : s \in States }
           L == Max(T)
<1>1. n \in Nat /\ n >= 2
  BY DEF IsMachine
<1>2. 0 \in States
  BY <1>1 DEF States
<1>3. T \in SUBSET Nat /\ T # {} /\ \A x \in T : x <= b
  BY <1>2
<1>4. L \in Nat /\ \A x \in T : x <= L
  <2> HIDE DEF T
  <2>1. L \in T /\ \A x \in T : x <= L
    BY <1>3, MaxOfNaturals
  <2> QED
    BY <1>3, <2>1
<1>5. BlockSize(h) = (L + (n - (L % n))) \div n
  BY DEF BlockSize, Largest
<1>6. \A s \in States : h[s] \in Nat /\ h[s] <= L
  <2> HIDE DEF L
  <2> QED
    BY <1>4
<1> HIDE DEF n, L, T
<1> DEFINE c == L \div n
<1>7. c \in Nat /\ n * c <= L /\ L < n * c + n /\ L % n = L - n * c
  <2>1. n \in Nat \ {0} /\ L \in Nat
    BY <1>1, <1>4
  <2> QED
    BY <2>1, Quotient
<1> HIDE DEF c
<1> DEFINE m == L + (n - (L % n))
<1>8. m = n * c + n
  BY <1>1, <1>4, <1>7
<1>9. m \in Nat /\ n * (c + 1) = m
  BY <1>1, <1>7, <1>8
<1> HIDE DEF m
<1>10. m \div n = c + 1
  BY <1>1, <1>7, <1>9, QuotientIs
<1>11. BlockSize(h) = c + 1
  BY <1>5, <1>10 DEF m
<1>12. (c + 1) * n = n * c + n
  BY <1>1, <1>7
<1>13. \A s \in States : h[s] < (c + 1) * n
  BY <1>1, <1>6, <1>4, <1>7, <1>12
<1> QED
  BY <1>7, <1>11, <1>13 DEF n

(* The intervals of the ranks in use cover all values below B * n.           *)
LEMMA IntervalsCover ==
    ASSUME IsMachine(fm), NEW B \in Nat \ {0}, NEW v \in Nat \ {0}, v < B * fm.n
    PROVE  \E r \in Ranks : v \in Interval(r, B)
<1> DEFINE n == fm.n
           p == PerRank
           q == Needed
           w == B * p
           c == (v - 1) \div w
<1>1. n \in Nat /\ p \in Nat \ {0} /\ q \in Nat \ {0} /\ n <= q * p
  BY StatesPerRank, EveryStateHasRank DEF IsMachine
<1>2. v < B * n
  OBVIOUS
<1> HIDE DEF n, p, q
<1>3. w \in Nat \ {0} /\ v - 1 \in Nat
  BY <1>1
<1>4. c \in Nat /\ w * c <= v - 1 /\ v - 1 < w * c + w
  <2> HIDE DEF w
  <2> QED
    BY <1>3, Quotient
<1>5. B * n <= w * q
  <2>1. q * p \in Int /\ B * n <= B * (q * p)
    BY <1>1, Multiples
  <2>2. B * (q * p) = (B * p) * q
    BY <1>1
  <2> QED
    BY <2>1, <2>2
<1>6. c + 1 <= q
  <2> HIDE DEF w, c
  <2> SUFFICES ASSUME q <= c PROVE FALSE
    BY <1>1, <1>4
  <2>1. w * q <= w * c
    BY <1>1, <1>3, <1>4, Multiples
  <2> QED
    BY <1>1, <1>2, <1>3, <1>4, <1>5, <2>1
<1> HIDE DEF c
<1>7. PICK r \in Ranks : r = c + 1
  BY <1>1, <1>4, <1>6 DEF Ranks, q
<1>8. (r - 1) * B * p = w * c /\ r * B * p = w * c + w
  BY <1>1, <1>4, <1>7
<1>9. v \in (r - 1) * B * p + 1 .. r * B * p
  <2> HIDE DEF w
  <2> QED
    BY <1>3, <1>4, <1>8
<1>10. v \in Interval(r, B)
  BY <1>9 DEF Interval, p
<1> QED
  BY <1>10

-----------------------------------------------------------------------------
(***************************************************************************)
(* The numbers of the hash values: of each, how many there are up to it.   *)
(***************************************************************************)
Values(h)    == { h[s] : s \in States }
Number(h, v) == Cardinality({ x \in Values(h) : x <= v })
From(r, B)   == (r - 1) * B * PerRank + 1

(* Two states go on alike on a label if both have no sink, or sinks in one   *)
(* block.                                                                    *)
SinkAlike(b, s, t, d) ==
    LET u == fm.sink[<<s, d>>]
        v == fm.sink[<<t, d>>]
    IN  (u = NoSink <=> v = NoSink) /\ (u # NoSink => b[u] = b[v])

Blocked(b) == b \in [States -> 1 .. fm.n]

(* Sinks are states or NoSink.                                               *)
LEMMA SinksOfStates ==
    ASSUME IsMachine(fm), NEW s \in States, NEW d \in Labels
    PROVE  /\ fm.n \in Nat /\ fm.n >= 2
           /\ fm.sink[<<s, d>>] # NoSink => fm.sink[<<s, d>>] \in States
           /\ NoSink \notin States
BY MachinesAssumption DEF IsMachine, States, Labels

(* A number below another one's multiple and remainder.                      *)
LEMMA PairsDiffer ==
    ASSUME NEW n \in Nat, NEW a \in Nat, NEW b \in Nat, NEW c \in 1 .. n + 1, NEW e \in 1 .. n + 1,
           a < b
    PROVE  a * (n + 1) + c < b * (n + 1) + e
<1> DEFINE m == n + 1
<1>1. m \in Nat /\ c <= m /\ e >= 1 /\ c \in Nat /\ e \in Nat
  OBVIOUS
<1> HIDE DEF m
<1>2. m * (a + 1) <= m * b
  BY <1>1, Multiples
<1>3. a * m + c < b * m + e
  BY <1>1, <1>2
<1> QED
  BY <1>3 DEF m

(* Two states have one hash value exactly if they are in one block and go on *)
(* alike: b[s] * (n + 1) leaves room for the n + 1 blocks of a sink.         *)
LEMMA HashesTellApart ==
    ASSUME IsMachine(fm), NEW b, Blocked(b), NEW d \in Labels
    PROVE  /\ \A s \in States : /\ Hash(b, s, d) \in Nat \ {0}
                                /\ Hash(b, s, d) <= fm.n * (fm.n + 1) + (fm.n + 1)
           /\ \A s, t \in States :
                Hash(b, s, d) = Hash(b, t, d) <=> b[s] = b[t] /\ SinkAlike(b, s, t, d)
<1> DEFINE n == fm.n
           low(s) == IF fm.sink[<<s, d>>] = NoSink THEN n + 1 ELSE b[fm.sink[<<s, d>>]]
<1>1. n \in Nat
  BY DEF IsMachine
<1>2. ASSUME NEW s \in States
      PROVE  /\ b[s] \in 1 .. n /\ low(s) \in 1 .. n + 1
             /\ fm.sink[<<s, d>>] # NoSink => low(s) \in 1 .. n
             /\ Hash(b, s, d) = b[s] * (n + 1) + low(s)
  BY <1>1, <1>2, SinksOfStates DEF Blocked, Hash
<1>3. ASSUME NEW s \in States, NEW t \in States
      PROVE  low(s) = low(t) <=> SinkAlike(b, s, t, d)
  <2>1. CASE fm.sink[<<s, d>>] = NoSink
    BY <1>1, <1>2, <2>1 DEF SinkAlike
  <2>2. CASE fm.sink[<<s, d>>] # NoSink
    BY <1>1, <1>2, <2>2 DEF SinkAlike
  <2> QED
    BY <2>1, <2>2
<1> HIDE DEF low
<1>4. ASSUME NEW s \in States
      PROVE  Hash(b, s, d) \in Nat \ {0} /\ Hash(b, s, d) <= n * (n + 1) + (n + 1)
  <2> DEFINE x == b[s]
             y == low(s)
  <2>1. x \in 1 .. n /\ y \in 1 .. n + 1 /\ Hash(b, s, d) = x * (n + 1) + y
    BY <1>2, <1>4
  <2> HIDE DEF n, x, y
  <2>2. (n + 1) * x <= (n + 1) * n /\ (n + 1) * 0 <= (n + 1) * x
    BY <1>1, <2>1, Multiples
  <2>3. x * (n + 1) = (n + 1) * x /\ (n + 1) * x \in Nat /\ (n + 1) * n = n * (n + 1)
    BY <1>1, <2>1
  <2> QED
    BY <1>1, <2>1, <2>2, <2>3
<1>5. ASSUME NEW s \in States, NEW t \in States
      PROVE  Hash(b, s, d) = Hash(b, t, d) <=> b[s] = b[t] /\ low(s) = low(t)
  <2>1. /\ b[s] \in 1 .. n /\ low(s) \in 1 .. n + 1 /\ Hash(b, s, d) = b[s] * (n + 1) + low(s)
        /\ b[t] \in 1 .. n /\ low(t) \in 1 .. n + 1 /\ Hash(b, t, d) = b[t] * (n + 1) + low(t)
    BY <1>2, <1>5
  <2>2. b[s] \in Nat /\ b[t] \in Nat /\ Hash(b, s, d) \in Nat /\ Hash(b, t, d) \in Nat
    BY <1>1, <1>4, <2>1
  <2>3. CASE b[s] < b[t]
    <3>1. b[s] * (n + 1) + low(s) < b[t] * (n + 1) + low(t)
      BY <1>1, <2>1, <2>2, <2>3, PairsDiffer
    <3> QED
      BY <2>1, <2>2, <2>3, <3>1
  <2>4. CASE b[t] < b[s]
    <3>1. b[t] * (n + 1) + low(t) < b[s] * (n + 1) + low(s)
      BY <1>1, <2>1, <2>2, <2>4, PairsDiffer
    <3> QED
      BY <2>1, <2>2, <2>4, <3>1
  <2>5. CASE b[s] = b[t]
    <3> DEFINE z == b[t] * (n + 1)
    <3>1. z \in Int
      BY <1>1, <2>2
    <3>2. Hash(b, s, d) = z + low(s) /\ Hash(b, t, d) = z + low(t)
      BY <2>1, <2>5
    <3> HIDE DEF z, n
    <3>3. Hash(b, s, d) = Hash(b, t, d) <=> low(s) = low(t)
      BY <1>1, <2>1, <3>1, <3>2
    <3> QED
      BY <2>5, <3>3
  <2> QED
    BY <2>2, <2>3, <2>4, <2>5
<1> QED
  BY <1>3, <1>4, <1>5 DEF n

(* What the gathered slices of hash values are.                              *)
IsHashed(h) == \E b : Blocked(b) /\ \E d \in Labels : h = [s \in States |-> Hash(b, s, d)]

(* What BlockSize makes of hash values: B * n is above them all.             *)
LEMMA HashedBounds ==
    ASSUME IsMachine(fm), NEW h, IsHashed(h)
    PROVE  /\ h \in [States -> Nat]
           /\ Values(h) \subseteq Nat \ {0}
           /\ BlockSize(h) \in Nat \ {0}
           /\ \A v \in Values(h) : v < BlockSize(h) * fm.n
<1>1. PICK b : Blocked(b) /\ \E d \in Labels : h = [s \in States |-> Hash(b, s, d)]
  BY DEF IsHashed
<1>2. PICK d \in Labels : h = [s \in States |-> Hash(b, s, d)]
  BY <1>1
<1> DEFINE n == fm.n
           c == n * (n + 1) + (n + 1)
<1>3. n \in Nat
  BY DEF IsMachine
<1>4. c \in Nat
  BY <1>3
<1>5. \A s \in States : h[s] \in Nat \ {0} /\ h[s] <= c
  BY <1>1, <1>2, HashesTellApart
<1> HIDE DEF n, c
<1>6. h \in [States -> Nat]
  BY <1>2, <1>5
<1>7. BlockSize(h) \in Nat \ {0} /\ \A s \in States : h[s] < BlockSize(h) * fm.n
  BY <1>4, <1>5, <1>6, BlockSizeBounds
<1> QED
  BY <1>5, <1>6, <1>7 DEF Values

(* There are at most as many values as states.                               *)
LEMMA ValuesAreFew ==
    ASSUME IsMachine(fm), NEW h \in [States -> Nat]
    PROVE  IsFiniteSet(Values(h)) /\ Cardinality(Values(h)) <= fm.n /\ Cardinality(Values(h)) \in Nat
<1> DEFINE n == fm.n
           V == Values(h)
           S == States
<1>1. n \in Nat /\ n >= 2
  BY DEF IsMachine
<1>2. IsFiniteSet(S) /\ Cardinality(S) = n
  <2>1. 0 \in Int /\ n - 1 \in Int
    BY <1>1
  <2>2. /\ IsFiniteSet(0 .. n - 1)
        /\ Cardinality(0 .. n - 1) = IF 0 > n - 1 THEN 0 ELSE n - 1 - 0 + 1
    BY <2>1, FS_Interval
  <2> HIDE DEF n
  <2>3. (IF 0 > n - 1 THEN 0 ELSE n - 1 - 0 + 1) = n
    BY <1>1
  <2> QED
    BY <2>2, <2>3 DEF States, n
<1>3. h \in Surjection(S, V)
  BY DEF Surjection, Values
<1> HIDE DEF V, S, n
<1>4. IsFiniteSet(V) /\ Cardinality(V) <= Cardinality(S)
  BY <1>2, <1>3, FS_Surjection
<1>5. Cardinality(V) \in Nat
  BY <1>4, FS_CardinalityType
<1> QED
  BY <1>2, <1>4, <1>5 DEF V, n

(* They are different for different values.                                  *)
LEMMA NumbersOfValues ==
    ASSUME IsMachine(fm), NEW h \in [States -> Nat]
    PROVE  /\ \A v \in Values(h) : Number(h, v) \in 1 .. fm.n
           /\ \A u, v \in Values(h) : Number(h, u) = Number(h, v) => u = v
<1> DEFINE V == Values(h)
           n == fm.n
           U(v) == { x \in V : x <= v }
<1>1. IsFiniteSet(V) /\ Cardinality(V) <= n /\ Cardinality(V) \in Nat /\ n \in Nat
  BY ValuesAreFew DEF IsMachine
<1>2. V \subseteq Nat
  BY DEF Values
<1> HIDE DEF V, n
<1>3. ASSUME NEW v \in V
      PROVE  IsFiniteSet(U(v)) /\ Cardinality(U(v)) \in 1 .. n
  <2>1. U(v) \in SUBSET V /\ v \in U(v)
    BY <1>2, <1>3
  <2> HIDE DEF U
  <2>2. IsFiniteSet(U(v)) /\ Cardinality(U(v)) <= Cardinality(V)
    BY <1>1, <2>1, FS_Subset
  <2>3. Cardinality(U(v)) \in Nat /\ Cardinality(U(v)) # 0
    BY <2>1, <2>2, FS_CardinalityType, FS_EmptySet
  <2> QED
    BY <1>1, <2>2, <2>3
<1>4. ASSUME NEW u \in V, NEW v \in V, u < v
      PROVE  Cardinality(U(u)) # Cardinality(U(v))
  <2>1. U(u) \in SUBSET U(v) /\ v \in U(v) /\ v \notin U(u)
    <3>1. u \in Nat /\ v \in Nat /\ \A x \in V : x \in Nat
      BY <1>2
    <3>2. \A x \in V : x <= u => x <= v
      BY <1>4, <3>1
    <3>3. ~ (v <= u) /\ v <= v
      BY <1>4, <3>1
    <3>4. U(u) \in SUBSET U(v)
      BY <3>2
    <3> QED
      BY <3>3, <3>4
  <2> HIDE DEF U
  <2> QED
    BY <1>3, <2>1, FS_Subset
<1>5. \A v : Number(h, v) = Cardinality(U(v))
  BY DEF Number, V
<1> HIDE DEF U
<1>6. ASSUME NEW u \in V, NEW v \in V, Number(h, u) = Number(h, v) PROVE u = v
  <2>1. u \in Nat /\ v \in Nat
    BY <1>2
  <2> QED
    BY <1>4, <1>5, <1>6, <2>1
<1> QED
  BY <1>3, <1>5, <1>6 DEF V, n

(* Counting what is below two bounds.                                        *)
Under(V, a)      == { x \in V : x < a }
Between(V, a, b) == { x \in V : a <= x /\ x < b }

(* Counting below two bounds.                                                *)
LEMMA CountBetween ==
    ASSUME NEW V, IsFiniteSet(V), V \subseteq Nat, NEW a \in Int, NEW b \in Int, a <= b
    PROVE  /\ Cardinality(Under(V, b)) = Cardinality(Under(V, a)) + Cardinality(Between(V, a, b))
           /\ Cardinality(Under(V, a)) \in Nat /\ Cardinality(Between(V, a, b)) \in Nat
<1> DEFINE X == Under(V, b)
           Y == Under(V, a)
           Z == Between(V, a, b)
<1>1. X = Y \cup Z /\ Y \cap Z = {} /\ Y \in SUBSET V /\ Z \in SUBSET V
  <2>1. ASSUME NEW x \in V PROVE /\ x < b <=> (x < a \/ (a <= x /\ x < b))
                                 /\ ~ (x < a /\ a <= x)
    <3>1. x \in Int
      BY <2>1
    <3> QED
      BY <3>1
  <2> QED
    BY <2>1 DEF Under, Between
<1> HIDE DEF X, Y, Z
<1>2. IsFiniteSet(Y) /\ IsFiniteSet(Z)
  BY <1>1, FS_Subset
<1>3. Cardinality(Y \cup Z) = Cardinality(Y) + Cardinality(Z) - Cardinality(Y \cap Z)
  BY <1>2, FS_Union
<1>4. Cardinality(Y) \in Nat /\ Cardinality(Z) \in Nat /\ Cardinality(Y \cap Z) = 0
  BY <1>1, <1>2, FS_CardinalityType, FS_EmptySet
<1>5. Cardinality(X) = Cardinality(Y) + Cardinality(Z)
  BY <1>1, <1>3, <1>4
<1> QED
  BY <1>4, <1>5 DEF X, Y, Z

Below(h, r) == Cardinality(Under(Values(h), From(r, BlockSize(h))))

(* The interval of a rank lies between two of the bounds From.               *)
LEMMA IntervalBounds ==
    ASSUME IsMachine(fm), NEW r \in Nat \ {0}, NEW B \in Nat \ {0}
    PROVE  /\ From(1, B) = 1
           /\ From(r, B) \in Int /\ From(r + 1, B) \in Int /\ From(r, B) <= From(r + 1, B)
           /\ \A v : v \in Interval(r, B) <=> v \in Int /\ From(r, B) <= v /\ v < From(r + 1, B)
<1> DEFINE p == PerRank
           c == (r - 1) * B
           w == B * p
<1>1. p \in Nat \ {0}
  BY StatesPerRank
<1> HIDE DEF p
<1>2. w \in Nat /\ c \in Int
  BY <1>1
<1>3. r * B * p = c * p + w
  BY <1>1
<1>4. From(r, B) = c * p + 1
  BY DEF From, p
<1>5. From(r + 1, B) = r * B * p + 1
  <2>1. PICK q \in Int : q = r + 1 /\ q - 1 = r
    OBVIOUS
  <2>2. From(q, B) = (q - 1) * B * p + 1
    BY DEF From, p
  <2> QED
    BY <2>1, <2>2
<1>6. From(1, B) = 1
  <2>1. (1 - 1) * B = 0 /\ 0 * p = 0
    BY <1>1
  <2>2. From(1, B) = ((1 - 1) * B) * p + 1
    BY DEF From, p
  <2> QED
    BY <2>1, <2>2
<1>7. Interval(r, B) = c * p + 1 .. r * B * p
  BY DEF Interval, p
<1> DEFINE a == c * p
           z == r * B * p
<1>8. a \in Int /\ z = a + w
  <2> HIDE DEF c, w
  <2>1. a \in Int
    BY <1>1, <1>2
  <2> QED
    BY <1>3, <2>1
<1>9. From(r, B) = a + 1 /\ From(r + 1, B) = z + 1 /\ Interval(r, B) = a + 1 .. z
  BY <1>4, <1>5, <1>7
<1> HIDE DEF a, z, w
<1> QED
  BY <1>2, <1>6, <1>8, <1>9

(* The values in use below a rank, and those of the rank: their sum is what  *)
(* is below the next.                                                        *)
LEMMA ValuesBelow ==
    ASSUME IsMachine(fm), NEW h \in [States -> Nat], BlockSize(h) \in Nat \ {0},
           Values(h) \subseteq Nat \ {0}
    PROVE  /\ Below(h, 1) = 0
           /\ \A r \in Nat \ {0} :
                 LET P == Present(h, Interval(r, BlockSize(h))) IN
                 /\ Cardinality(P) \in Nat
                 /\ Below(h, r) \in Nat
                 /\ Below(h, r + 1) = Below(h, r) + Cardinality(P)
                 /\ \A v \in Interval(r, BlockSize(h)) :
                       Number(h, v) = Below(h, r) + Cardinality({ x \in P : x <= v })
<1> DEFINE V == Values(h)
           B == BlockSize(h)
<1>1. IsFiniteSet(V) /\ V \subseteq Nat \ {0} /\ V \subseteq Nat /\ B \in Nat \ {0}
  BY ValuesAreFew
<1>2. \A I : Present(h, I) = I \cap V
  BY DEF Present, Values
<1>3. \A r : Below(h, r) = Cardinality(Under(V, From(r, B)))
  BY DEF Below
<1>4. \A v : Number(h, v) = Cardinality({ x \in V : x <= v })
  BY DEF Number
<1> HIDE DEF V, B
<1>5. Below(h, 1) = 0
  <2>1. From(1, B) = 1
    BY <1>1, IntervalBounds
  <2>2. Under(V, 1) = {}
    <3>1. \A x \in V : ~ (x < 1)
      BY <1>1
    <3> QED
      BY <3>1 DEF Under
  <2> QED
    BY <1>3, <2>1, <2>2, FS_EmptySet
<1>6. ASSUME NEW a \in Int, NEW b \in Int, a <= b
      PROVE  /\ Cardinality(Under(V, b)) = Cardinality(Under(V, a)) + Cardinality(Between(V, a, b))
             /\ Cardinality(Under(V, a)) \in Nat /\ Cardinality(Between(V, a, b)) \in Nat
  BY <1>1, <1>6, CountBetween
<1>7. ASSUME NEW r \in Nat \ {0}, NEW I, I = Interval(r, B)
      PROVE  /\ Cardinality(I \cap V) \in Nat
             /\ Below(h, r) \in Nat
             /\ Below(h, r + 1) = Below(h, r) + Cardinality(I \cap V)
             /\ \A v \in I : Number(h, v) = Below(h, r) + Cardinality({ x \in I \cap V : x <= v })
  <2> DEFINE a == From(r, B)
             b == From(r + 1, B)
  <2>1. /\ a \in Int /\ b \in Int /\ a <= b
        /\ \A v : v \in I <=> v \in Int /\ a <= v /\ v < b
    BY <1>1, <1>7, IntervalBounds
  <2>2. Below(h, r) = Cardinality(Under(V, a)) /\ Below(h, r + 1) = Cardinality(Under(V, b))
    BY <1>3
  <2> HIDE DEF a, b
  <2>3. I \cap V = Between(V, a, b)
    <3>1. \A x \in V : x \in I <=> a <= x /\ x < b
      BY <1>1, <2>1
    <3> QED
      BY <3>1 DEF Between
  <2>4. ASSUME NEW v \in I
        PROVE  Number(h, v) = Below(h, r) + Cardinality({ x \in I \cap V : x <= v })
    <3> DEFINE c == v + 1
    <3>1. v \in Int /\ c \in Int /\ a <= c /\ c <= b
      BY <2>1, <2>4
    <3>2. { x \in V : x <= v } = Under(V, c)
      <4>1. \A x \in V : x <= v <=> x < v + 1
        <5>1. \A x \in V : x \in Int
          BY <1>1
        <5> QED
          BY <3>1, <5>1
      <4> QED
        BY <4>1 DEF Under
    <3>3. { x \in I \cap V : x <= v } = Between(V, a, c)
      <4>1. ASSUME NEW x \in V PROVE (x \in I /\ x <= v) <=> (a <= x /\ x < v + 1)
        <5>1. x \in Int
          BY <1>1
        <5>2. x \in I <=> a <= x /\ x < b
          BY <2>1, <5>1
        <5> QED
          BY <2>1, <3>1, <5>1, <5>2
      <4> QED
        BY <4>1 DEF Between
    <3> HIDE DEF c
    <3> QED
      BY <1>4, <1>6, <2>1, <2>2, <3>1, <3>2, <3>3
  <2>5. /\ Cardinality(Under(V, b)) = Cardinality(Under(V, a)) + Cardinality(Between(V, a, b))
        /\ Cardinality(Under(V, a)) \in Nat /\ Cardinality(Between(V, a, b)) \in Nat
    BY <1>6, <2>1
  <2> QED
    BY <2>2, <2>3, <2>4, <2>5
<1>8. ASSUME NEW r \in Nat \ {0}
      PROVE  LET P == Present(h, Interval(r, B)) IN
             /\ Cardinality(P) \in Nat
             /\ Below(h, r) \in Nat
             /\ Below(h, r + 1) = Below(h, r) + Cardinality(P)
             /\ \A v \in Interval(r, B) :
                   Number(h, v) = Below(h, r) + Cardinality({ x \in P : x <= v })
  <2> DEFINE I == Interval(r, B)
  <2>1. Present(h, I) = I \cap V
    BY <1>2
  <2> HIDE DEF I
  <2>2. I = Interval(r, B)
    BY DEF I
  <2>3. /\ Cardinality(I \cap V) \in Nat
        /\ Below(h, r) \in Nat
        /\ Below(h, r + 1) = Below(h, r) + Cardinality(I \cap V)
        /\ \A v \in I : Number(h, v) = Below(h, r) + Cardinality({ x \in I \cap V : x <= v })
    BY <1>7, <1>8, <2>2
  <2> QED
    BY <2>1, <2>2, <2>3
<1> QED
  BY <1>5, <1>8 DEF B

-----------------------------------------------------------------------------
(***************************************************************************)
(* What the messages and the gathered slices hold: the hash values of rank *)
(* 0's blocks on its label, how many of them lie in a rank's interval, and *)
(* their numbers.                                                          *)
(***************************************************************************)
H == [s \in States |-> Hash(ib, s, D)]

Answer(tag, r) ==
    LET I == Interval(r, BlockSize(H)) IN
    CASE tag = "hash"  -> [s \in Slice(r) |-> H[s]]
      [] tag = "count" -> Cardinality(Present(H, I))
      [] tag = "newb"  -> [v \in I |-> IF v \in Values(H) THEN Number(H, v) ELSE 0]
      [] OTHER         -> [s \in Slice(r) |-> Number(H, H[s])]

IsOrder(tag, r, data) ==
    /\ tag = "blocks"  => data = ib
    /\ tag = "hashes"  => data.h = H /\ data.B = BlockSize(H)
    /\ tag = "sum"     => data = Below(H, r)
    /\ tag = "numbers" => \A v \in Values(H) : data[v] = Number(H, v)

(* A rank that has left has at most its last answer on the way.              *)
RightData(r) ==
    /\ Heard(r) /\ master \in Gathering => slices[r] = Answer(master, r)
    /\ outbox[r] # <<>> => master \in Gathering /\ outbox[r][1].data = Answer(master, r)
    /\ worker[r].wait = "left" =>
          outbox[r] = <<>> \/ (~ Heard(r) /\ master = "block" /\ One(outbox[r], "block"))
    /\ worker[r].wait # "left" =>
          \A i \in DOMAIN inbox[r] : IsOrder(inbox[r][i].tag, r, inbox[r][i].data)
    /\ worker[r].wait \in {"sum", "numbers"} => worker[r].h = H /\ worker[r].B = BlockSize(H)

DataInv == Running => \A r \in Ranks : RightData(r)

(* The machine is one of the files', and the blocks are numbered.            *)
Sane == fm \in MachineFiles /\ D \in Labels /\ Blocked(ib)

(* What the hash values are like as long as the block numbers are numbers of *)
(* blocks.                                                                   *)
LEMMA SaneHashes ==
    ASSUME Sane
    PROVE  /\ IsMachine(fm) /\ IsHashed(H)
           /\ H \in [States -> Nat] /\ Values(H) \subseteq Nat \ {0}
           /\ BlockSize(H) \in Nat \ {0}
           /\ \A s \in States : H[s] = Hash(ib, s, D) /\ H[s] \in Values(H)
<1>1. IsMachine(fm) /\ IsHashed(H)
  BY MachinesAssumption DEF Sane, IsHashed, H
<1>2. \A s \in States : H[s] = Hash(ib, s, D) /\ H[s] \in Values(H)
  BY DEF H, Values
<1> QED
  BY <1>1, <1>2, HashedBounds

(* Every hash value in use has a rank that counts and numbers it.            *)
LEMMA EveryValueHasRank ==
    ASSUME Sane, NEW v \in Values(H)
    PROVE  \E r \in Ranks : v \in Interval(r, BlockSize(H))
<1>1. /\ IsMachine(fm) /\ BlockSize(H) \in Nat \ {0} /\ v \in Nat \ {0}
      /\ v < BlockSize(H) * fm.n
  BY SaneHashes, HashedBounds
<1> QED
  BY <1>1, IntervalsCover

(* Rank 0's partial sums are the numbers of values below the ranks.          *)
LEMMA SumIsBelow ==
    ASSUME Sane, \A r \in Ranks : slices[r] = Answer("count", r), NEW r \in Ranks
    PROVE  PartialSum(r) = Below(H, r)
<1> DEFINE N == Needed
           R(f) == f = [O \in 0 .. N |-> IF O = 0 THEN 0 ELSE f[O - 1] + slices[O]]
           g == [O \in 0 .. N |-> Below(H, O + 1)]
           is == CHOOSE f : R(f)
<1>1. IsMachine(fm) /\ N \in Nat \ {0}
  BY SaneHashes, EveryStateHasRank
<1>2. /\ Below(H, 1) = 0
      /\ \A q \in Nat \ {0} : Below(H, q + 1) = Below(H, q) + slices[q] \/ q \notin Ranks
  <2>1. Below(H, 1) = 0
    BY SaneHashes, ValuesBelow
  <2>2. ASSUME NEW q \in Nat \ {0}, q \in Ranks PROVE Below(H, q + 1) = Below(H, q) + slices[q]
    <3>1. slices[q] = Cardinality(Present(H, Interval(q, BlockSize(H))))
      BY <2>2 DEF Answer
    <3>2. Below(H, q + 1) = Below(H, q) + Cardinality(Present(H, Interval(q, BlockSize(H))))
      BY SaneHashes, ValuesBelow
    <3> QED
      BY <3>1, <3>2
  <2> QED
    BY <2>1, <2>2
<1>3. Ranks = 1 .. N
  BY DEF Ranks
<1> HIDE DEF N
<1>4. \A O \in 0 .. N : g[O] = IF O = 0 THEN 0 ELSE g[O - 1] + slices[O]
  <2> SUFFICES ASSUME NEW O \in 0 .. N PROVE g[O] = IF O = 0 THEN 0 ELSE g[O - 1] + slices[O]
    OBVIOUS
  <2>1. CASE O = 0
    <3>1. O + 1 = 1
      BY <2>1
    <3> QED
      BY <1>2, <2>1, <3>1
  <2>2. CASE O # 0
    <3>1. O \in Nat \ {0} /\ O \in Ranks /\ O - 1 \in 0 .. N /\ (O - 1) + 1 = O
      BY <1>1, <1>3, <2>2
    <3>2. g[O - 1] = Below(H, O) /\ g[O] = Below(H, O + 1)
      BY <3>1
    <3> QED
      BY <1>2, <2>2, <3>1, <3>2
  <2> QED
    BY <2>1, <2>2
<1>5. R(g)
  BY <1>4
<1> HIDE DEF g
<1>6. R(is)
  BY <1>5
<1>7. PartialSum(r) = is[r - 1]
  BY DEF PartialSum, N
<1> HIDE DEF is
<1>8. \A O \in 0 .. N : is[O] = IF O = 0 THEN 0 ELSE is[O - 1] + slices[O]
  BY <1>6
<1> HIDE DEF R
<1> DEFINE Bad == { O \in 0 .. N : is[O] # g[O] }
<1>9. Bad = {}
  <2> SUFFICES ASSUME Bad # {} PROVE FALSE
    OBVIOUS
  <2>1. Bad \in SUBSET Nat
    BY <1>1
  <2>2. PICK O \in Bad : \A x \in Bad : O <= x
    BY <2>1, LeastOfNaturals
  <2>3. O \in 0 .. N /\ is[O] # g[O]
    BY <2>2
  <2>4. O # 0
    BY <1>4, <1>8, <2>3
  <2>5. O - 1 \in 0 .. N /\ ~ (O <= O - 1)
    BY <1>1, <2>3, <2>4
  <2>6. is[O - 1] = g[O - 1]
    BY <2>2, <2>5
  <2> QED
    BY <1>4, <1>8, <2>3, <2>4, <2>6
<1>10. r - 1 \in 0 .. N /\ (r - 1) + 1 = r
  BY <1>1, <1>3
<1>11. is[r - 1] = g[r - 1]
  BY <1>9, <1>10
<1> QED
  BY <1>7, <1>10, <1>11 DEF g

(* Rank 0's union of the intervals has the number of every value in use.     *)
LEMMA NumbersAreRight ==
    ASSUME Sane, \A r \in Ranks : slices[r] = Answer("newb", r), NEW v \in Values(H)
    PROVE  Numbers[v] = Number(H, v)
<1>1. \A r \in Ranks : /\ DOMAIN slices[r] = Interval(r, BlockSize(H))
                       /\ v \in Interval(r, BlockSize(H)) => slices[r][v] = Number(H, v)
  BY DEF Answer
<1>2. \E r \in Ranks : v \in DOMAIN slices[r]
  BY <1>1, EveryValueHasRank
<1> DEFINE o == CHOOSE q \in Ranks : v \in DOMAIN slices[q]
<1>3. o \in Ranks /\ v \in DOMAIN slices[o]
  BY <1>2
<1>4. Numbers[v] = slices[o][v]
  BY <1>2 DEF Numbers
<1> QED
  BY <1>1, <1>3, <1>4

(* Slices of one function, put together by owner, are that function.         *)
LEMMA WholeOf ==
    ASSUME Sane, NEW f, \A r \in Ranks : slices[r] = [s \in Slice(r) |-> f[s]]
    PROVE  Whole = [s \in States |-> f[s]]
<1>1. \A s \in States : Owner(s) \in Ranks /\ s \in Slice(Owner(s))
  BY SaneHashes, EveryStateHasRank
<1>2. ASSUME NEW s \in States PROVE slices[Owner(s)][s] = f[s]
  <2>1. PICK r \in Ranks : r = Owner(s)
    BY <1>1
  <2>2. s \in Slice(r) /\ slices[r] = [x \in Slice(r) |-> f[x]]
    BY <1>1, <2>1
  <2> QED
    BY <2>1, <2>2
<1> QED
  BY <1>2 DEF Whole

(* What a rank answers to an order.                                          *)
LEMMA NumbersOfInterval ==
    ASSUME Sane, NEW r \in Ranks, NEW P, P = Present(H, Interval(r, BlockSize(H)))
    PROVE  [v \in Interval(r, BlockSize(H)) |->
              IF v \in P THEN Below(H, r) + Cardinality({ x \in P : x <= v }) ELSE 0]
           = Answer("newb", r)
<1> DEFINE I == Interval(r, BlockSize(H))
<1>1. r \in Nat \ {0}
  BY SaneHashes, EveryStateHasRank DEF Ranks
<1>2. \A v \in I : Number(H, v) = Below(H, r) + Cardinality({ x \in P : x <= v })
  BY <1>1, SaneHashes, ValuesBelow
<1>3. \A v \in I : v \in P <=> v \in Values(H)
  <2> HIDE DEF I
  <2> QED
    BY DEF Present, Values, I
<1>4. Answer("newb", r) = [v \in I |-> IF v \in Values(H) THEN Number(H, v) ELSE 0]
  BY DEF Answer
<1> HIDE DEF I
<1>5. [v \in I |-> IF v \in P THEN Below(H, r) + Cardinality({ x \in P : x <= v }) ELSE 0]
        = [v \in I |-> IF v \in Values(H) THEN Number(H, v) ELSE 0]
  BY <1>2, <1>3
<1> QED
  BY <1>4, <1>5 DEF I

(* What the messages should hold changes only with the numbers and the       *)
(* label.                                                                    *)
LEMMA DataStays ==
    ASSUME UNCHANGED <<fm, ib, D>>
    PROVE  /\ Ranks' = Ranks /\ H' = H /\ BlockSize(H)' = BlockSize(H)
           /\ \A r, tag : Answer(tag, r)' = Answer(tag, r)
           /\ \A r, tag, data : IsOrder(tag, r, data)' <=> IsOrder(tag, r, data)
<1>1. States' = States /\ Labels' = Labels /\ PerRank' = PerRank /\ Needed' = Needed /\ Ranks' = Ranks
  BY DEF States, Labels, PerRank, Needed, Ranks
<1>2. H' = H
  BY <1>1 DEF H, Hash
<1>3. \A h : BlockSize(h)' = BlockSize(h)
  BY <1>1 DEF BlockSize, Largest
<1>4. BlockSize(H)' = BlockSize(H)
  BY <1>2, <1>3 DEF BlockSize, Largest
<1>5. Values(H)' = Values(H)
  BY <1>1, <1>2 DEF Values
<1>6. \A v : Number(H, v)' = Number(H, v)
  BY <1>5 DEF Number
<1>7. \A r : Below(H, r)' = Below(H, r)
  BY <1>1, <1>4, <1>5 DEF Below, From
<1>8. \A r : Interval(r, BlockSize(H))' = Interval(r, BlockSize(H)) /\ Slice(r)' = Slice(r)
  BY <1>1, <1>4 DEF Interval, Slice
<1>9. \A r : Present(H, Interval(r, BlockSize(H)))' = Present(H, Interval(r, BlockSize(H)))
  BY <1>1, <1>2, <1>8 DEF Present
<1>10. ASSUME NEW r, NEW tag PROVE Answer(tag, r)' = Answer(tag, r)
  BY <1>2, <1>5, <1>6, <1>8, <1>9 DEF Answer
<1>11. ASSUME NEW r, NEW tag, NEW data PROVE IsOrder(tag, r, data)' <=> IsOrder(tag, r, data)
  BY <1>2, <1>4, <1>5, <1>6, <1>7 DEF IsOrder
<1> QED
  BY <1>1, <1>2, <1>4, <1>10, <1>11

(* The messages of queues of one and two.                                    *)
LEMMA FirstOfOne ==
    ASSUME NEW q, NEW tag, One(q, tag)
    PROVE  Head(q) = q[1] /\ q[1].tag = tag /\ DOMAIN q = {1} /\ Tail(q) = <<>> /\ q # <<>>
<1> DEFINE x == q[1]
<1>1. q = <<x>> /\ x.tag = tag
  BY DEF One
<1> HIDE DEF x
<1> QED
  BY <1>1

(* A reply to an empty queue is its only message.                            *)
LEMMA AnswerAlone ==
    ASSUME NEW m
    PROVE  LET q == <<>> \o <<m>> IN q # <<>> /\ q[1] = m
OBVIOUS

(* A step of a rank with an answer, if the answer is right.                  *)
LEMMA ReplyIsRight ==
    ASSUME LockInv, DataInv, NEW r \in AllRanks, NEW tag, Delivered(r, tag),
           tag \in {"blocks", "hashes", "sum", "numbers"},
           NEW w, NEW m, Step(r, w, <<m>>), m.tag = master, m.data = Answer(master, r),
           w.wait = "left" => master = "block",
           w.wait \in {"sum", "numbers"} => w.h = H /\ w.B = BlockSize(H)
    PROVE  DataInv'
<1>1. /\ UNCHANGED <<fm, master, D, slices, ib>>
      /\ worker'[r] = w /\ inbox'[r] = Tail(inbox[r]) /\ outbox'[r] = outbox[r] \o <<m>>
  BY StepHere DEF Step, masterVars
<1>2. /\ Running /\ r \in Ranks /\ outbox[r] = <<>> /\ Served(r, tag) /\ ~ Heard(r)
      /\ master \in Gathering
  BY DeliveredInPhase DEF Gathering
<1>3. /\ Ranks' = Ranks /\ BlockSize(H)' = BlockSize(H) /\ H' = H /\ Running'
      /\ \A q, t : Answer(t, q)' = Answer(t, q)
      /\ \A q, t, data : IsOrder(t, q, data)' <=> IsOrder(t, q, data)
      /\ \A q : Heard(q)' <=> Heard(q)
  BY <1>1, <1>2, DataStays DEF Running, Heard
<1>4. ASSUME NEW q \in Ranks PROVE RightData(q)'
  <2>1. CASE q = r
    <3>1. inbox'[r] = <<>>
      BY <1>1, <1>2, FirstOfOne DEF Served
    <3>2. outbox'[r] # <<>> /\ outbox'[r][1] = m /\ One(outbox'[r], m.tag)
      BY <1>1, <1>2, AnswerAlone, MessageToNobody
    <3>3. DOMAIN inbox'[r] = {}
      BY <3>1
    <3>4. RightData(r)'
      BY <1>1, <1>2, <1>3, <3>2, <3>3 DEF RightData, One
    <3> QED
      BY <2>1, <3>4
  <2>2. CASE q # r
    <3>1. worker'[q] = worker[q] /\ inbox'[q] = inbox[q] /\ outbox'[q] = outbox[q]
      <4>1. q \in AllRanks \/ q \notin DOMAIN worker
        BY DEF LockInv, NetworkTyped
      <4> QED
        BY <2>2 DEF Step, LockInv, NetworkTyped
    <3>2. RightData(q)
      BY <1>2, <1>4 DEF DataInv
    <3> QED
      BY <1>1, <1>3, <3>1, <3>2 DEF RightData, One
  <2> QED
    BY <2>1, <2>2
<1> QED
  BY <1>3, <1>4 DEF DataInv

(* What is delivered to a rank is right.                                     *)
LEMMA OrderIsRight ==
    ASSUME LockInv, DataInv, NEW r \in AllRanks, NEW tag, Delivered(r, tag),
           tag \in {"blocks", "hashes", "sum", "numbers"}
    PROVE  /\ r \in Ranks /\ IsOrder(tag, r, Data(r))
           /\ tag = "blocks" => master = "hash" /\ worker[r].label = D
           /\ tag = "hashes" => master = "count"
           /\ tag = "sum" => master = "newb"
           /\ tag = "numbers" => master = "block"
           /\ tag \in {"sum", "numbers"} => worker[r].h = H /\ worker[r].B = BlockSize(H)
<1>1. /\ Running /\ r \in Ranks /\ Served(r, tag) /\ OnLabel(r)
      /\ tag = "blocks" => master = "hash"
      /\ tag = "hashes" => master = "count"
      /\ tag = "sum" => master = "newb"
      /\ tag = "numbers" => master = "block"
  BY DeliveredInPhase
<1>2. /\ Head(inbox[r]) = inbox[r][1] /\ inbox[r][1].tag = tag /\ DOMAIN inbox[r] = {1}
      /\ worker[r].wait = tag
  BY <1>1, FirstOfOne DEF Served
<1>3. RightData(r)
  BY <1>1 DEF DataInv
<1>4. IsOrder(tag, r, Data(r))
  BY <1>2, <1>3 DEF RightData, Data
<1> QED
  BY <1>1, <1>2, <1>3, <1>4 DEF RightData, OnLabel

(* Each step of a rank makes the right answer of the right order.            *)
LEMMA RankStepKeepsData ==
    ASSUME LockInv, DataInv, Sane, NEW r \in AllRanks,
           HashStates(r) \/ CountPresent(r) \/ NumberPresent(r) \/ UpdateBlocks(r)
    PROVE  DataInv'
<1> DEFINE W == worker[r]
<1>1. DOMAIN W = {"wait", "label", "b", "cb", "h", "B"}
  BY DEF LockInv, NetworkTyped, Idle
<1>2. \A tag, data : Message(tag, data).tag = tag /\ Message(tag, data).data = data
  BY DEF Message
<1>3. \A s \in Slice(r) : s \in States
  BY DEF Slice
<1>4. CASE HashStates(r)
  <2> DEFINE w == [W EXCEPT !.b = Data(r), !.wait = "hashes"]
             d == [s \in Slice(r) |-> Hash(Data(r), s, W.label)]
             m == Message("hash", d)
  <2>1. Delivered(r, "blocks") /\ Step(r, w, <<m>>)
    BY <1>4 DEF HashStates
  <2>2. master = "hash" /\ Data(r) = ib /\ W.label = D
    BY <2>1, OrderIsRight DEF IsOrder
  <2>3. \A s \in Slice(r) : H[s] = Hash(ib, s, D)
    BY <1>3 DEF H
  <2>4. d = Answer(master, r)
    BY <2>2, <2>3 DEF Answer
  <2>5. m.tag = master /\ m.data = Answer(master, r) /\ w.wait = "hashes"
    BY <1>1, <1>2, <2>2, <2>4
  <2> HIDE DEF m, w
  <2> QED
    BY <2>1, <2>5, ReplyIsRight
<1>5. CASE CountPresent(r)
  <2> DEFINE w == [W EXCEPT !.h = Data(r).h, !.B = Data(r).B, !.wait = "sum"]
             d == Cardinality(Present(Data(r).h, Interval(r, Data(r).B)))
             m == Message("count", d)
  <2>1. Delivered(r, "hashes") /\ Step(r, w, <<m>>)
    BY <1>5 DEF CountPresent
  <2>2. master = "count" /\ Data(r).h = H /\ Data(r).B = BlockSize(H)
    BY <2>1, OrderIsRight DEF IsOrder
  <2>3. d = Answer(master, r)
    BY <2>2 DEF Answer
  <2>4. m.tag = master /\ m.data = Answer(master, r)
    BY <1>2, <2>2, <2>3
  <2>5. w.wait = "sum" /\ w.h = H /\ w.B = BlockSize(H)
    BY <1>1, <2>2
  <2> HIDE DEF m, w
  <2> QED
    BY <2>1, <2>4, <2>5, ReplyIsRight
<1>6. CASE NumberPresent(r)
  <2> DEFINE P == Present(W.h, Interval(r, W.B))
             w == [W EXCEPT !.wait = "numbers"]
             d == [v \in Interval(r, W.B) |->
                     IF v \in P THEN Data(r) + Cardinality({ x \in P : x <= v }) ELSE 0]
             m == Message("newb", d)
  <2>1. Delivered(r, "sum") /\ Step(r, w, <<m>>)
    BY <1>6 DEF NumberPresent
  <2>2. master = "newb" /\ Data(r) = Below(H, r) /\ W.h = H /\ W.B = BlockSize(H) /\ r \in Ranks
    BY <2>1, OrderIsRight DEF IsOrder
  <2>3. d = Answer(master, r)
    BY <2>2, NumbersOfInterval
  <2>4. m.tag = master /\ m.data = Answer(master, r)
    BY <1>2, <2>2, <2>3
  <2>5. w.wait = "numbers" /\ w.h = H /\ w.B = BlockSize(H)
    BY <1>1, <2>2
  <2> HIDE DEF m, w
  <2> QED
    BY <2>1, <2>4, <2>5, ReplyIsRight
<1>7. CASE UpdateBlocks(r)
  <2> DEFINE b == NewBlocks(r)
             d == [s \in Slice(r) |-> b[s]]
             m == Message("block", d)
             u == [W EXCEPT !.b = b, !.label = @ + 1, !.wait = "blocks"]
             v == [W EXCEPT !.b = b, !.label = 1, !.cb = b,
                            !.wait = IF W.cb # b THEN "blocks" ELSE "left"]
             w == IF W.label < fm.l THEN u ELSE v
  <2>1. Delivered(r, "numbers") /\ Step(r, w, <<m>>)
    BY <1>7 DEF UpdateBlocks
  <2>2. /\ master = "block" /\ \A x \in Values(H) : Data(r)[x] = Number(H, x)
        /\ W.h = H
    BY <2>1, OrderIsRight DEF IsOrder
  <2>3. \A s \in Slice(r) : b[s] = Number(H, H[s])
    <3>1. \A s \in Slice(r) : b[s] = Data(r)[W.h[s]]
      BY <1>3 DEF NewBlocks
    <3>2. \A s \in Slice(r) : H[s] \in Values(H)
      BY <1>3, SaneHashes
    <3> QED
      BY <2>2, <3>1, <3>2
  <2>4. d = Answer(master, r)
    <3> HIDE DEF b
    <3> QED
      BY <2>2, <2>3 DEF Answer
  <2>5. m.tag = master /\ m.data = Answer(master, r)
    BY <1>2, <2>2, <2>4
  <2>6. w.wait \in {"blocks", "left"}
    BY <1>1
  <2> HIDE DEF m, w
  <2> QED
    BY <2>1, <2>2, <2>5, <2>6, ReplyIsRight
<1> QED
  BY <1>4, <1>5, <1>6, <1>7

(* The setup leaves at most the first order behind.                          *)
LEMMA SetupKeepsData ==
    ASSUME LockInv, DataInv, NEW r \in AllRanks, TakeSetup(r)
    PROVE  DataInv'
<1> DEFINE w == [worker[r] EXCEPT !.cb = Data(r), !.wait = "blocks"]
<1>1. Delivered(r, "setup") /\ Step(r, w, <<>>)
  BY DEF TakeSetup
<1>2. w.wait = "blocks"
  BY DEF LockInv, NetworkTyped, Idle
<1> HIDE DEF w
<1>3. /\ UNCHANGED <<fm, master, D, slices, ib>>
      /\ worker'[r] = w /\ inbox'[r] = Tail(inbox[r]) /\ outbox'[r] = outbox[r] \o <<>>
  BY <1>1, StepHere DEF Step, masterVars
<1>4. /\ Running /\ r \in Ranks /\ outbox[r] = <<>>
      /\ IF master = "hash" THEN Two(inbox[r], "setup", "blocks") ELSE Served(r, "setup")
      /\ worker[r].wait = "setup"
  BY <1>1, DeliveredInPhase DEF Delivered
<1>5. outbox'[r] = <<>>
  BY <1>3, <1>4
<1>6. /\ Ranks' = Ranks /\ BlockSize(H)' = BlockSize(H) /\ H' = H /\ Running'
      /\ \A q, t : Answer(t, q)' = Answer(t, q)
      /\ \A q, t, data : IsOrder(t, q, data)' <=> IsOrder(t, q, data)
      /\ \A q : Heard(q)' <=> Heard(q)
  BY <1>3, <1>4, DataStays DEF Running, Heard
<1>7. \A q \in Ranks : RightData(q)
  BY <1>4 DEF DataInv
<1>8. \A i \in DOMAIN inbox'[r] : IsOrder(inbox'[r][i].tag, r, inbox'[r][i].data)
  <2>1. CASE Served(r, "setup")
    <3>1. inbox'[r] = <<>>
      BY <1>3, <2>1, FirstOfOne DEF Served
    <3> QED
      BY <3>1
  <2>2. CASE Two(inbox[r], "setup", "blocks")
    <3> DEFINE x == inbox[r][1]
               y == inbox[r][2]
    <3>1. inbox[r] = <<x, y>>
      BY <2>2 DEF Two
    <3> HIDE DEF x, y
    <3>2. inbox'[r] = <<y>>
      BY <1>3, <3>1
    <3>3. y = inbox[r][2] /\ 2 \in DOMAIN inbox[r]
      BY <3>1
    <3>4. IsOrder(y.tag, r, y.data)
      BY <1>4, <1>7, <3>3 DEF RightData
    <3> QED
      BY <3>2, <3>4
  <2> QED
    BY <1>4, <2>1, <2>2
<1>9. ASSUME NEW q \in Ranks PROVE RightData(q)'
  <2>1. CASE q = r
    <3>1. RightData(r)'
      BY <1>2, <1>3, <1>4, <1>5, <1>6, <1>7, <1>8 DEF RightData
    <3> QED
      BY <2>1, <3>1
  <2>2. CASE q # r
    <3>1. worker'[q] = worker[q] /\ inbox'[q] = inbox[q] /\ outbox'[q] = outbox[q]
      <4>1. q \in AllRanks \/ q \notin DOMAIN worker
        BY DEF LockInv, NetworkTyped
      <4> QED
        BY <1>1, <2>2 DEF Step, LockInv, NetworkTyped
    <3>2. RightData(q)
      BY <1>7, <1>9
    <3> QED
      BY <1>3, <1>6, <3>1, <3>2 DEF RightData, One
  <2> QED
    BY <2>1, <2>2
<1> QED
  BY <1>6, <1>9 DEF DataInv

(* A job that runs has all the ranks it needs.                               *)
Manned ==
    /\ master # "read" => numprocs \in ProcCounts
    /\ Running => Needed < numprocs

(* The ranks in use are among those modelled.                                *)
LEMMA MannedRanks ==
    ASSUME IsMachine(fm), Needed < numprocs, numprocs \in ProcCounts
    PROVE  Ranks \subseteq AllRanks
<1> DEFINE top == Max(ProcCounts)
<1>1. top \in ProcCounts /\ \A d \in ProcCounts : top >= d
  BY MachinesAssumption DEF Max
<1> HIDE DEF top
<1>2. top \in Nat /\ numprocs \in Nat /\ numprocs <= top
  BY <1>1, MachinesAssumption
<1>3. Needed \in Nat
  BY EveryStateHasRank
<1> DEFINE n == Needed
<1>4. n < numprocs /\ n \in Nat
  BY <1>3
<1> HIDE DEF n
<1>5. 1 .. n \subseteq 1 .. top - 1
  BY <1>2, <1>4
<1> QED
  BY <1>5 DEF Ranks, AllRanks, n, top

(* When all slices are in, nothing is on the way and the slices are right.   *)
LEMMA AllQuiet ==
    ASSUME LockInv, DataInv, NEW tag \in Gathering, Gathered(tag), NEW r \in Ranks, r \in AllRanks
    PROVE  /\ Running /\ Heard(r) /\ slices[r] = Answer(tag, r) /\ outbox[r] = <<>>
           /\ worker[r].wait = "left" \/ inbox[r] = <<>>
<1>1. Running /\ master = tag /\ Heard(r)
  BY DEF Gathered, Gathering, Running, Heard, Ranks
<1>2. RightData(r) /\ At(r)
  BY <1>1 DEF DataInv, LockInv
<1>3. slices[r] = Answer(tag, r)
  BY <1>1, <1>2 DEF RightData
<1>4. CASE worker[r].wait = "left"
  BY <1>1, <1>2, <1>3, <1>4 DEF RightData
<1>5. CASE worker[r].wait # "left"
  <2>1. InPhase(r)
    BY <1>1, <1>2, <1>5 DEF At
  <2>2. \E t : Waits(r, t)
    BY <1>1, <2>1 DEF InPhase, Gathering
  <2> QED
    BY <1>1, <1>3, <2>2 DEF Waits
<1> QED
  BY <1>4, <1>5

(* A message behind at most one other.                                       *)
LEMMA Appended ==
    ASSUME NEW q, NEW m, q = <<>> \/ \E t : One(q, t), NEW i \in DOMAIN Append(q, m)
    PROVE  Append(q, m)[i] = m \/ (i \in DOMAIN q /\ Append(q, m)[i] = q[i])
<1>1. CASE q = <<>>
  BY <1>1
<1>2. CASE \E t : One(q, t)
  <2> DEFINE x == q[1]
  <2>1. q = <<x>>
    BY <1>2 DEF One
  <2> HIDE DEF x
  <2> QED
    BY <2>1
<1> QED
  BY <1>1, <1>2

(* Sends of the right orders.                                                *)
LEMMA SendKeepsData ==
    ASSUME LockInv, DataInv, Ranks \subseteq AllRanks, NEW tag, NEW nextTag,
           UNCHANGED <<fm, D, ib, worker, outbox>>, slices' = <<>>, master' = nextTag,
           \A r \in Ranks : \E m : /\ m.tag = tag /\ IsOrder(tag, r, m.data)
                                   /\ inbox'[r] = Append(inbox[r], m),
           \/ master = "setup" /\ nextTag = "blocks"
           \/ master = "blocks" /\ nextTag = "hash"
           \/ Gathered("hash") /\ nextTag = "count"
           \/ Gathered("count") /\ nextTag = "newb"
           \/ Gathered("newb") /\ nextTag = "block"
    PROVE  DataInv'
<1>1. /\ Ranks' = Ranks /\ BlockSize(H)' = BlockSize(H) /\ H' = H
      /\ \A q, t, data : IsOrder(t, q, data)' <=> IsOrder(t, q, data)
  BY DataStays
<1>2. ASSUME NEW r \in Ranks
      PROVE  /\ outbox[r] = <<>>
             /\ worker[r].wait = "left" \/ inbox[r] = <<>> \/ \E t : One(inbox[r], t)
             /\ worker[r].wait = "left" \/ \A i \in DOMAIN inbox[r] : IsOrder(inbox[r][i].tag, r, inbox[r][i].data)
             /\ worker[r].wait \in {"sum", "numbers"} => worker[r].h = H /\ worker[r].B = BlockSize(H)
  <2>1. At(r) /\ r \in AllRanks
    BY <1>2 DEF LockInv
  <2>2. CASE master = "setup"
    BY <2>1, <2>2 DEF At, Running, Untouched, Waits
  <2>3. CASE master = "blocks"
    <3>1. Running /\ RightData(r)
      BY <1>2, <2>3 DEF Running, DataInv
    <3>2. outbox[r] = <<>>
      BY <2>3, <3>1 DEF RightData, Gathering
    <3>3. worker[r].wait = "left" \/ Waits(r, "blocks") \/ Served(r, "setup")
      BY <1>2, <2>1, <2>3, <3>1 DEF At, InPhase
    <3> QED
      BY <3>1, <3>2, <3>3 DEF RightData, Waits, Served
  <2>4. CASE \E t \in {"hash", "count", "newb"} : Gathered(t)
    <3>1. PICK t \in Gathering : Gathered(t)
      BY <2>4 DEF Gathering
    <3>2. Running /\ outbox[r] = <<>> /\ (worker[r].wait = "left" \/ inbox[r] = <<>>)
      BY <1>2, <2>1, <3>1, AllQuiet
    <3>3. RightData(r)
      BY <1>2, <3>2 DEF DataInv
    <3> QED
      BY <3>2, <3>3 DEF RightData
  <2> QED
    BY <2>2, <2>3, <2>4
<1>3. ASSUME NEW r \in Ranks PROVE RightData(r)'
  <2>1. ~ Heard(r)'
    <3>1. r \in Int /\ r >= 1
      BY <1>3 DEF Ranks
    <3> QED
      BY <3>1 DEF Heard
  <2>2. PICK m : /\ m.tag = tag /\ IsOrder(tag, r, m.data)
                 /\ inbox'[r] = Append(inbox[r], m)
    BY <1>3
  <2>3. worker[r].wait # "left" => \A i \in DOMAIN inbox'[r] : IsOrder(inbox'[r][i].tag, r, inbox'[r][i].data)
    BY <1>2, <1>3, <2>2, Appended
  <2>4. outbox'[r] = <<>>
    BY <1>2, <1>3
  <2> QED
    BY <1>1, <1>2, <1>3, <2>1, <2>3, <2>4 DEF RightData
<1> QED
  BY <1>1, <1>3 DEF DataInv

(* A receive of rank 0 takes the right answer into the slices.               *)
LEMMA GatherKeepsData ==
    ASSUME LockInv, DataInv, Ranks \subseteq AllRanks, NEW tag \in Gathering, Gather(tag)
    PROVE  DataInv'
<1>0. PICK q : q = Len(slices) + 1
  OBVIOUS
<1>1. /\ master = tag /\ q \in Ranks /\ outbox[q] # <<>> /\ Head(outbox[q]).tag = tag
      /\ slices' = Append(slices, Head(outbox[q]).data)
      /\ outbox' = [outbox EXCEPT ![q] = Tail(@)]
      /\ UNCHANGED <<fm, master, D, ib, worker, inbox>>
  BY <1>0 DEF Gather
<1>2. Len(slices) \in Nat /\ Len(slices') = Len(slices) + 1 /\ IsSequence(slices)
  <2>1. IsSequence(slices)
    BY DEF LockInv, NetworkTyped
  <2>2. Len(slices) \in Nat
    BY <2>1 DEF IsSequence
  <2> QED
    BY <1>1, <2>1, <2>2, AppendToSequence
<1>3. \A i \in 1 .. Len(slices) : slices'[i] = slices[i]
  BY <1>1, <1>2 DEF IsSequence
<1>4. slices'[q] = Head(outbox[q]).data
  <2> DEFINE x == Head(outbox[q]).data
  <2>1. slices' = Append(slices, x)
    BY <1>1
  <2> HIDE DEF x
  <2>2. slices'[Len(slices) + 1] = x
    BY <1>2, <2>1 DEF IsSequence
  <2> QED
    BY <1>0, <2>2 DEF x
<1>5. ~ Heard(q) /\ Heard(q)' /\ \A r \in Int : r # q => (Heard(r)' <=> Heard(r))
  BY <1>0, <1>2 DEF Heard
<1>6. /\ Ranks' = Ranks /\ BlockSize(H)' = BlockSize(H) /\ H' = H /\ Running /\ Running'
      /\ \A p, t : Answer(t, p)' = Answer(t, p)
      /\ \A p, t, data : IsOrder(t, p, data)' <=> IsOrder(t, p, data)
  BY <1>1, DataStays DEF Running, Gathering
<1>7. \A r \in Ranks : RightData(r)
  BY <1>6 DEF DataInv
<1>8. One(outbox[q], tag)
  <2>1. At(q) /\ RightData(q)
    BY <1>1, <1>7 DEF LockInv
  <2>2. CASE worker[q].wait = "left"
    BY <1>1, <2>1, <2>2 DEF RightData
  <2>3. CASE worker[q].wait # "left"
    <3>1. InPhase(q)
      BY <1>1, <1>6, <2>1, <2>3 DEF At
    <3> QED
      BY <1>1, <1>5, <3>1 DEF InPhase, Gathering, Waits, Served, Replied
  <2> QED
    BY <2>2, <2>3
<1>9. Head(outbox[q]) = outbox[q][1] /\ Tail(outbox[q]) = <<>>
  BY <1>8, FirstOfOne
<1>10. ASSUME NEW r \in Ranks PROVE RightData(r)'
  <2>1. r \in Int /\ r >= 1 /\ r \in AllRanks
    BY <1>10 DEF Ranks
  <2>2. CASE r = q
    <3>1. outbox'[q] = <<>>
      BY <1>1, <1>9, <2>1, <2>2 DEF LockInv, NetworkTyped
    <3>2. slices'[q] = Answer(tag, q)
      BY <1>1, <1>4, <1>7, <1>9 DEF RightData
    <3>3. RightData(q)
      BY <1>1, <1>7
    <3>4. RightData(q)'
      BY <1>1, <1>6, <3>1, <3>2, <3>3 DEF RightData
    <3> QED
      BY <2>2, <3>4
  <2>3. CASE r # q
    <3>1. outbox'[r] = outbox[r]
      BY <1>1, <2>1, <2>3 DEF LockInv, NetworkTyped
    <3>2. Heard(r)' <=> Heard(r)
      BY <1>5, <2>1, <2>3
    <3>3. Heard(r) => slices'[r] = slices[r]
      BY <1>2, <1>3, <2>1 DEF Heard
    <3>4. RightData(r)
      BY <1>7, <1>10
    <3> QED
      BY <1>1, <1>6, <3>1, <3>2, <3>3, <3>4 DEF RightData, One
  <2> QED
    BY <2>2, <2>3
<1> QED
  BY <1>6, <1>10 DEF DataInv

(* Nothing is on the way when rank 0 goes on to the next label.              *)
LEMMA NextLabelKeepsData ==
    ASSUME LockInv, DataInv, Ranks \subseteq AllRanks, NextLabel
    PROVE  DataInv'
<1>1. /\ Gathered("block") /\ slices' = <<>> /\ UNCHANGED <<fm, worker, inbox, outbox>>
      /\ master' \in {"blocks", "print"}
  BY DEF NextLabel
<1>2. Ranks' = Ranks
  BY <1>1 DEF Ranks, Needed, PerRank
<1>3. ASSUME NEW r \in Ranks PROVE RightData(r)'
  <2>1. r \in AllRanks /\ "block" \in Gathering
    BY <1>3 DEF Gathering
  <2>2. Heard(r) /\ Running /\ outbox[r] = <<>> /\ (worker[r].wait = "left" \/ inbox[r] = <<>>)
    BY <1>1, <1>3, <2>1, AllQuiet
  <2>3. worker[r].wait \in {"left", "blocks"}
    BY <1>1, <2>1, <1>3, <2>2 DEF LockInv, At, InPhase, Gathered, Waits
  <2> QED
    BY <1>1, <2>2, <2>3 DEF RightData, Gathering
<1> QED
  BY <1>2, <1>3 DEF DataInv

(* Printing touches no message.                                              *)
LEMMA PrintKeepsData ==
    ASSUME DataInv, PrintMachine
    PROVE  DataInv'
<1>1. master = "print" /\ master' = "done" /\ UNCHANGED <<fm, D, slices, ib, worker, inbox, outbox>>
  BY DEF PrintMachine
<1>2. /\ Ranks' = Ranks /\ BlockSize(H)' = BlockSize(H) /\ H' = H /\ Running
      /\ \A p, t, data : IsOrder(t, p, data)' <=> IsOrder(t, p, data)
  BY <1>1, DataStays DEF Running
<1>3. ASSUME NEW r \in Ranks PROVE RightData(r)'
  <2>1. RightData(r)
    BY <1>2, <1>3 DEF DataInv
  <2> QED
    BY <1>1, <1>2, <2>1 DEF RightData, Gathering
<1> QED
  BY <1>2, <1>3 DEF DataInv

-----------------------------------------------------------------------------
(***************************************************************************)
(* Words.                                                                  *)
(***************************************************************************)
IsRun(f, m, s, w) ==
    /\ DOMAIN f = 0 .. Len(w) /\ f[0] = s
    /\ \A i \in 1 .. Len(w) : f[i] = Onward(m, f[i - 1], w[i])

(* Words of at most k letters.                                               *)
LEMMA WordsAre ==
    /\ \A k \in Nat : \A w \in Words(k) : Len(w) \in 0 .. k /\ w \in [1 .. Len(w) -> Labels]
    /\ \A k \in Nat : \A w \in [1 .. k -> Labels] : Len(w) = k /\ w \in Words(k)
    /\ \A j, k \in Nat : j <= k => Words(j) \subseteq Words(k)
<1>1. ASSUME NEW k \in Nat, NEW w \in [1 .. k -> Labels] PROVE Len(w) = k
  OBVIOUS
<1>2. ASSUME NEW k \in Nat, NEW w \in Words(k)
      PROVE  Len(w) \in 0 .. k /\ w \in [1 .. Len(w) -> Labels]
  <2>1. PICK i \in 0 .. k : w \in [1 .. i -> Labels]
    BY <1>2 DEF Words
  <2>2. Len(w) = i
    BY <1>1, <2>1
  <2> QED
    BY <2>1, <2>2
<1>3. ASSUME NEW k \in Nat, NEW w \in [1 .. k -> Labels] PROVE w \in Words(k)
  <2>1. k \in 0 .. k
    OBVIOUS
  <2> QED
    BY <2>1 DEF Words
<1>4. ASSUME NEW j \in Nat, NEW k \in Nat, j <= k PROVE Words(j) \subseteq Words(k)
  <2>1. 0 .. j \subseteq 0 .. k
    BY <1>4
  <2> QED
    BY <2>1 DEF Words
<1> QED
  BY <1>1, <1>2, <1>3, <1>4

(* A word has one run from a state, and it has one.                          *)
LEMMA OneRun ==
    ASSUME NEW m, NEW s, NEW w, Len(w) \in Nat, NEW f, NEW g, IsRun(f, m, s, w), IsRun(g, m, s, w)
    PROVE  f[Len(w)] = g[Len(w)]
<1> DEFINE L == Len(w)
           Bad == { i \in 0 .. L : f[i] # g[i] }
<1>1. /\ f[0] = s /\ g[0] = s /\ L \in Nat
      /\ \A i \in 1 .. L : f[i] = Onward(m, f[i - 1], w[i]) /\ g[i] = Onward(m, g[i - 1], w[i])
  BY DEF IsRun
<1> HIDE DEF L
<1>2. Bad = {}
  <2> SUFFICES ASSUME Bad # {} PROVE FALSE
    OBVIOUS
  <2>1. Bad \in SUBSET Nat
    BY <1>1
  <2>2. PICK i \in Bad : \A x \in Bad : i <= x
    BY <2>1, LeastOfNaturals
  <2>3. i \in 0 .. L /\ f[i] # g[i]
    BY <2>2
  <2>4. i \in 1 .. L /\ i - 1 \in 0 .. L /\ ~ (i <= i - 1)
    BY <1>1, <2>3
  <2>5. f[i - 1] = g[i - 1]
    BY <2>2, <2>4
  <2> QED
    BY <1>1, <2>3, <2>4, <2>5
<1>3. L \in 0 .. L
  BY <1>1
<1> QED
  BY <1>2, <1>3 DEF L

LEMMA RunsExist ==
    ASSUME NEW m, NEW s, NEW w, Len(w) \in Nat
    PROVE  \E f : IsRun(f, m, s, w)
<1> DEFINE L == Len(w)
           R(f, k) == /\ DOMAIN f = 0 .. k /\ f[0] = s
                      /\ \A i \in 1 .. k : f[i] = Onward(m, f[i - 1], w[i])
           Bad == { k \in 0 .. L : ~ \E f : R(f, k) }
<1>1. L \in Nat
  OBVIOUS
<1> HIDE DEF L
<1>2. Bad = {}
  <2> SUFFICES ASSUME Bad # {} PROVE FALSE
    OBVIOUS
  <2>1. Bad \in SUBSET Nat
    BY <1>1
  <2> HIDE DEF Bad
  <2>2. PICK k \in Bad : \A x \in Bad : k <= x
    BY <2>1, LeastOfNaturals
  <2>3. k \in 0 .. L /\ ~ \E f : R(f, k)
    BY <2>2 DEF Bad
  <2>4. CASE k = 0
    <3> DEFINE f == [i \in 0 .. 0 |-> s]
    <3>1. DOMAIN f = 0 .. k /\ f[0] = s /\ 1 .. k = {}
      BY <2>4
    <3> HIDE DEF f
    <3>2. R(f, k)
      BY <3>1
    <3> QED
      BY <2>3, <3>2
  <2>5. CASE k # 0
    <3>1. k - 1 \in 0 .. L /\ ~ (k <= k - 1)
      BY <1>1, <2>3, <2>5
    <3>2. k - 1 \notin Bad
      BY <2>2, <3>1
    <3>3. PICK f : R(f, k - 1)
      BY <3>1, <3>2 DEF Bad
    <3> DEFINE g == [i \in 0 .. k |-> IF i = k THEN Onward(m, f[k - 1], w[k]) ELSE f[i]]
    <3>4. DOMAIN g = 0 .. k /\ g[0] = s
      BY <2>3, <2>5, <3>3
    <3>5. ASSUME NEW i \in 1 .. k PROVE g[i] = Onward(m, g[i - 1], w[i])
      <4>1. i \in 0 .. k /\ i - 1 \in 0 .. k /\ i - 1 # k
        BY <2>3, <3>5
      <4>2. g[i - 1] = f[i - 1]
        BY <4>1
      <4>3. CASE i = k
        BY <4>1, <4>2, <4>3
      <4>4. CASE i # k
        <5>1. i \in 1 .. k - 1
          BY <2>3, <3>5, <4>4
        <5> QED
          BY <3>3, <4>1, <4>2, <4>4, <5>1
      <4> QED
        BY <4>3, <4>4
    <3> HIDE DEF g
    <3>6. R(g, k)
      BY <3>4, <3>5
    <3> QED
      BY <2>3, <3>6
  <2> QED
    BY <2>4, <2>5
<1>3. L \in 0 .. L
  BY <1>1
<1>4. \E f : R(f, L)
  BY <1>2, <1>3
<1> QED
  BY <1>4 DEF IsRun, L

(* The state after a word is the last of its run.                            *)
LEMMA AfterEndsRun ==
    ASSUME NEW m, NEW s, NEW w, Len(w) \in Nat
    PROVE  /\ \E f : IsRun(f, m, s, w) /\ After(m, s, w) = f[Len(w)]
           /\ \A g : IsRun(g, m, s, w) => After(m, s, w) = g[Len(w)]
<1> DEFINE L == Len(w)
           R(f) == f = [i \in 0 .. L |-> IF i = 0 THEN s ELSE Onward(m, f[i - 1], w[i])]
           at == CHOOSE f : R(f)
<1>1. After(m, s, w) = at[L]
  BY DEF After
<1>2. L \in Nat
  OBVIOUS
<1>3. PICK h : IsRun(h, m, s, w)
  BY RunsExist
<1> DEFINE g == [i \in 0 .. L |-> h[i]]
<1>4. \A i \in 0 .. L : g[i] = IF i = 0 THEN s ELSE Onward(m, g[i - 1], w[i])
  <2>1. h[0] = s /\ \A i \in 1 .. L : h[i] = Onward(m, h[i - 1], w[i])
    BY <1>3 DEF IsRun
  <2> HIDE DEF L
  <2> SUFFICES ASSUME NEW i \in 0 .. L PROVE g[i] = IF i = 0 THEN s ELSE Onward(m, g[i - 1], w[i])
    OBVIOUS
  <2>2. CASE i = 0
    BY <2>1, <2>2
  <2>3. CASE i # 0
    <3>1. i \in 1 .. L /\ i - 1 \in 0 .. L
      BY <1>2, <2>3
    <3> QED
      BY <2>1, <2>3, <3>1
  <2> QED
    BY <2>2, <2>3
<1>5. R(g)
  BY <1>4
<1> HIDE DEF g
<1>6. R(at)
  BY <1>5
<1> HIDE DEF at
<1>7. IsRun(at, m, s, w)
  <2> DEFINE e(i) == IF i = 0 THEN s ELSE Onward(m, at[i - 1], w[i])
  <2>1. DOMAIN at = 0 .. L /\ \A i \in 0 .. L : at[i] = IF i = 0 THEN s ELSE Onward(m, at[i - 1], w[i])
    BY <1>6
  <2> HIDE DEF R
  <2>2. at[0] = s
    BY <1>2, <2>1
  <2>3. ASSUME NEW i \in 1 .. L PROVE at[i] = Onward(m, at[i - 1], w[i])
    <3> HIDE DEF L
    <3>1. i \in 0 .. L /\ i # 0
      BY <1>2
    <3> QED
      BY <2>1, <3>1
  <2> QED
    BY <2>1, <2>2, <2>3 DEF IsRun
<1> QED
  BY <1>1, <1>7, OneRun

(* From nowhere nothing leads back.                                          *)
LEMMA NowhereStays ==
    ASSUME NEW m, NEW w, Len(w) \in Nat
    PROVE  After(m, NoSink, w) = NoSink
<1> DEFINE g == [i \in 0 .. Len(w) |-> NoSink]
<1>1. IsRun(g, m, NoSink, w)
  <2> DEFINE L == Len(w)
  <2> HIDE DEF L
  <2>1. \A i \in 1 .. L : i \in 0 .. L /\ i - 1 \in 0 .. L
    BY DEF L
  <2>2. L \in Nat /\ 0 \in 0 .. L
    BY DEF L
  <2> QED
    BY <2>1, <2>2 DEF IsRun, Onward, L
<1>2. After(m, NoSink, w) = g[Len(w)]
  BY <1>1, AfterEndsRun
<1> QED
  BY <1>2

(* A letter before a word.                                                   *)
LEMMA AfterLetter ==
    ASSUME NEW k \in Nat, NEW w \in [1 .. k -> Labels], NEW d \in Labels, NEW m, NEW s
    PROVE  \E v \in [1 .. k + 1 -> Labels] : \A x : After(m, x, v) = After(m, Onward(m, x, d), w)
<1> DEFINE v == [i \in 1 .. k + 1 |-> IF i = 1 THEN d ELSE w[i - 1]]
<1>1. v \in [1 .. k + 1 -> Labels]
  <2> SUFFICES ASSUME NEW i \in 1 .. k + 1 PROVE (IF i = 1 THEN d ELSE w[i - 1]) \in Labels
    OBVIOUS
  <2>1. i # 1 => i - 1 \in 1 .. k
    OBVIOUS
  <2> QED
    BY <2>1
<1>2. Len(w) = k /\ Len(v) = k + 1 /\ k + 1 \in Nat
  BY <1>1, WordsAre
<1>3. v[1] = d /\ \A i \in 1 .. k : v[i + 1] = w[i]
  <2>1. 1 \in 1 .. k + 1
    OBVIOUS
  <2>2. ASSUME NEW i \in 1 .. k PROVE v[i + 1] = w[i]
    <3>1. i + 1 \in 1 .. k + 1 /\ i + 1 # 1 /\ (i + 1) - 1 = i
      OBVIOUS
    <3> QED
      BY <3>1
  <2> QED
    BY <2>1, <2>2
<1> HIDE DEF v
<1>4. ASSUME NEW x PROVE After(m, x, v) = After(m, Onward(m, x, d), w)
  <2>1. PICK f : IsRun(f, m, Onward(m, x, d), w) /\ After(m, Onward(m, x, d), w) = f[k]
    BY <1>2, AfterEndsRun
  <2>2. /\ f[0] = Onward(m, x, d) /\ \A i \in 1 .. k : f[i] = Onward(m, f[i - 1], w[i])
    BY <1>2, <2>1 DEF IsRun
  <2> DEFINE g == [i \in 0 .. k + 1 |-> IF i = 0 THEN x ELSE f[i - 1]]
  <2>3. DOMAIN g = 0 .. k + 1 /\ g[0] = x /\ \A i \in 1 .. k + 1 : g[i] = f[i - 1]
    <3>1. \A i \in 1 .. k + 1 : i \in 0 .. k + 1 /\ i # 0
      OBVIOUS
    <3>2. 0 \in 0 .. k + 1
      OBVIOUS
    <3> QED
      BY <3>1, <3>2
  <2> HIDE DEF g
  <2>4. ASSUME NEW i \in 1 .. k + 1 PROVE g[i] = Onward(m, g[i - 1], v[i])
    <3>1. CASE i = 1
      <4>1. i - 1 = 0
        BY <3>1
      <4> QED
        BY <1>3, <2>2, <2>3, <3>1, <4>1
    <3>2. CASE i # 1
      <4>1. PICK j \in 1 .. k : i = j + 1 /\ i - 1 = j
        <5>1. i - 1 \in 1 .. k /\ i = (i - 1) + 1
          BY <3>2
        <5> QED
          BY <5>1
      <4>2. j \in 1 .. k + 1
        OBVIOUS
      <4>3. g[i] = f[j] /\ g[j] = f[j - 1] /\ v[i] = w[j]
        BY <1>3, <2>3, <4>1, <4>2
      <4> QED
        BY <2>2, <4>1, <4>3
    <3> QED
      BY <3>1, <3>2
  <2>5. IsRun(g, m, x, v)
    BY <1>2, <2>3, <2>4 DEF IsRun
  <2>6. After(m, x, v) = g[k + 1]
    BY <1>2, <2>5, AfterEndsRun
  <2>7. k + 1 \in 1 .. k + 1 /\ (k + 1) - 1 = k
    OBVIOUS
  <2>8. g[k + 1] = f[k]
    BY <2>3, <2>7
  <2> QED
    BY <2>1, <2>6, <2>8
<1> QED
  BY <1>1, <1>4

(* The empty word.                                                           *)
LEMMA AfterNothing ==
    \A m, s : After(m, s, <<>>) = s /\ \A k \in Nat : <<>> \in Words(k)
<1> SUFFICES ASSUME NEW m, NEW s PROVE After(m, s, <<>>) = s /\ \A k \in Nat : <<>> \in Words(k)
  OBVIOUS
<1>1. Len(<<>>) = 0
  OBVIOUS
<1>2. IsRun([i \in 0 .. 0 |-> s], m, s, <<>>)
  BY <1>1 DEF IsRun
<1>3. After(m, s, <<>>) = s
  BY <1>1, <1>2, AfterEndsRun
<1>4. ASSUME NEW k \in Nat PROVE <<>> \in Words(k)
  <2>1. <<>> \in [1 .. 0 -> Labels] /\ 0 \in Nat /\ 0 <= k
    OBVIOUS
  <2>2. <<>> \in Words(0)
    BY <2>1, WordsAre
  <2> QED
    BY <2>1, <2>2, WordsAre
<1> QED
  BY <1>3, <1>4

-----------------------------------------------------------------------------
(***************************************************************************)
(* The partition.                                                          *)
(***************************************************************************)
Kept(b) == { First(b, s) : s \in States }

(* A word of at most k letters tells s and t apart.                          *)
Told(s, t, k) ==
    \E w \in Words(k) : \/ Accepts(fm, s, w) # Accepts(fm, t, w)
                        \/ (After(fm, s, w) = NoSink) # (After(fm, t, w) = NoSink)

Agreeing(b) == \A s, t \in States : b[s] = b[t] => (s \in fm.final <=> t \in fm.final)
Within(b, c) == \A s, t \in States : b[s] = b[t] => c[s] = c[t]
Closed(b, c, d) == \A s, t \in States : b[s] = b[t] => SinkAlike(c, s, t, d)
ToldApart(b) == \A s, t \in States : b[s] # b[t] => Told(s, t, Cardinality(Kept(b)) - 1)

(* The first state of a block.                                               *)
LEMMA FirstOfBlock ==
    ASSUME IsMachine(fm), NEW b, Blocked(b), NEW s \in States
    PROVE  /\ First(b, s) \in States /\ b[First(b, s)] = b[s]
           /\ \A t \in States : b[t] = b[s] => First(b, s) <= t /\ First(b, t) = First(b, s)
<1> DEFINE T == { t \in DOMAIN b : b[t] = b[s] }
<1>1. DOMAIN b = States /\ States \subseteq Nat
  BY DEF Blocked, States, IsMachine
<1>2. T \in SUBSET Nat /\ s \in T
  BY <1>1
<1>3. First(b, s) = Min(T)
  BY DEF First
<1> HIDE DEF T
<1>4. Min(T) \in T /\ \A y \in T : Min(T) <= y
  BY <1>2, MinOfNaturals
<1>5. ASSUME NEW t \in States, b[t] = b[s] PROVE First(b, t) = First(b, s)
  BY <1>5 DEF First
<1> QED
  BY <1>1, <1>3, <1>4, <1>5 DEF T

(* There are between 1 and n blocks.                                         *)
LEMMA KeptCount ==
    ASSUME IsMachine(fm), NEW b, Blocked(b)
    PROVE  /\ Kept(b) \subseteq States /\ IsFiniteSet(Kept(b))
           /\ Cardinality(Kept(b)) \in 1 .. fm.n
           /\ \A x \in Kept(b) : First(b, x) = x
<1>1. Kept(b) \subseteq States
  BY FirstOfBlock DEF Kept
<1>2. fm.n \in Nat /\ fm.n >= 2
  BY DEF IsMachine
<1>3. IsFiniteSet(States) /\ Cardinality(States) = fm.n
  <2>1. IsFiniteSet(0 .. fm.n - 1) /\ Cardinality(0 .. fm.n - 1) = (fm.n - 1) - 0 + 1
    <3> DEFINE m == fm.n - 1
    <3>1. m \in Int /\ 0 \in Int /\ ~ (0 > m)
      BY <1>2
    <3> HIDE DEF m
    <3>2. IsFiniteSet(0 .. m) /\ Cardinality(0 .. m) = IF 0 > m THEN 0 ELSE m - 0 + 1
      BY <3>1, FS_Interval
    <3> QED
      BY <3>1, <3>2 DEF m
  <2> QED
    BY <1>2, <2>1 DEF States
<1>4. IsFiniteSet(Kept(b)) /\ Cardinality(Kept(b)) <= fm.n
  BY <1>1, <1>3, FS_Subset
<1>5. Cardinality(Kept(b)) \in Nat /\ Cardinality(Kept(b)) # 0
  <2>1. 0 \in States
    BY <1>2 DEF States
  <2>2. Kept(b) # {}
    BY <2>1 DEF Kept
  <2> QED
    BY <1>4, <2>2, FS_EmptySet, FS_CardinalityType
<1>6. ASSUME NEW x \in Kept(b) PROVE First(b, x) = x
  <2>1. PICK s \in States : x = First(b, s)
    BY DEF Kept
  <2> QED
    BY <2>1, FirstOfBlock
<1> QED
  BY <1>1, <1>2, <1>4, <1>5, <1>6

(* A finer partition has more blocks.                                        *)
LEMMA KeptGrows ==
    ASSUME IsMachine(fm), NEW b, Blocked(b), NEW c, Blocked(c), Within(c, b)
    PROVE  /\ Cardinality(Kept(b)) <= Cardinality(Kept(c))
           /\ \A s, t \in States : b[s] = b[t] /\ c[s] # c[t] =>
                 Cardinality(Kept(b)) < Cardinality(Kept(c))
<1>1. Kept(b) \subseteq Kept(c)
  <2> SUFFICES ASSUME NEW x \in Kept(b) PROVE x \in Kept(c)
    OBVIOUS
  <2>1. x \in States /\ x = First(b, x)
    BY KeptCount
  <2>2. First(c, x) \in States /\ c[First(c, x)] = c[x] /\ First(c, x) <= x
    BY <2>1, FirstOfBlock
  <2>3. b[First(c, x)] = b[x]
    BY <2>1, <2>2 DEF Within
  <2>4. x <= First(c, x)
    BY <2>1, <2>2, <2>3, FirstOfBlock
  <2>5. x = First(c, x)
    BY <2>1, <2>2, <2>4 DEF States
  <2> QED
    BY <2>1, <2>5 DEF Kept
<1>2. /\ IsFiniteSet(Kept(c)) /\ Cardinality(Kept(b)) \in Nat /\ Cardinality(Kept(c)) \in Nat
  BY KeptCount
<1>3. /\ Cardinality(Kept(b)) <= Cardinality(Kept(c))
      /\ Cardinality(Kept(b)) = Cardinality(Kept(c)) => Kept(b) = Kept(c)
  BY <1>1, <1>2, FS_Subset
<1>4. ASSUME NEW s \in States, NEW t \in States, b[s] = b[t], c[s] # c[t]
      PROVE  Kept(b) # Kept(c)
  <2> SUFFICES ASSUME Kept(b) = Kept(c) PROVE FALSE
    OBVIOUS
  <2>1. First(c, s) \in Kept(b) /\ First(c, t) \in Kept(b)
    BY DEF Kept
  <2>2. First(c, s) \in States /\ First(c, t) \in States
        /\ c[First(c, s)] = c[s] /\ c[First(c, t)] = c[t]
    BY FirstOfBlock
  <2>3. b[First(c, s)] = b[s] /\ b[First(c, t)] = b[t]
    BY <2>2 DEF Within
  <2>4. First(b, First(c, s)) = First(b, s) /\ First(b, First(c, t)) = First(b, t)
    BY <2>2, <2>3, FirstOfBlock
  <2>5. First(b, First(c, s)) = First(c, s) /\ First(b, First(c, t)) = First(c, t)
    BY <2>1, KeptCount
  <2>6. First(b, s) = First(b, t)
    BY <1>4, FirstOfBlock
  <2> QED
    BY <1>4, <2>2, <2>4, <2>5, <2>6
<1> QED
  BY <1>2, <1>3, <1>4

(* Words that tell two states apart.                                         *)
LEMMA ToldLonger ==
    ASSUME NEW j \in Nat, NEW k \in Nat, j <= k, NEW s, NEW t, Told(s, t, j)
    PROVE  Told(s, t, k)
BY WordsAre DEF Told

(* The empty word tells final states from others, and states from nowhere.   *)
LEMMA ToldAtOnce ==
    ASSUME NEW s, NEW t, (s \in fm.final) # (t \in fm.final) \/ (s = NoSink) # (t = NoSink),
           NEW k \in Nat
    PROVE  Told(s, t, k)
BY AfterNothing DEF Told, Accepts

(* A word that tells the sinks apart tells the states apart behind a letter. *)
LEMMA ToldBefore ==
    ASSUME NEW s, NEW t, NEW d \in Labels, NEW k \in Nat,
           Told(Onward(fm, s, d), Onward(fm, t, d), k)
    PROVE  Told(s, t, k + 1)
<1> DEFINE u == Onward(fm, s, d)
           v == Onward(fm, t, d)
<1>1. PICK w \in Words(k) : \/ Accepts(fm, u, w) # Accepts(fm, v, w)
                            \/ (After(fm, u, w) = NoSink) # (After(fm, v, w) = NoSink)
  BY DEF Told
<1> HIDE DEF u, v
<1>2. Len(w) \in 0 .. k /\ w \in [1 .. Len(w) -> Labels]
  BY WordsAre
<1>3. PICK j \in 0 .. k : w \in [1 .. j -> Labels]
  BY <1>2
<1>4. PICK x \in [1 .. j + 1 -> Labels] : \A y : After(fm, y, x) = After(fm, Onward(fm, y, d), w)
  BY <1>3, AfterLetter
<1>5. After(fm, s, x) = After(fm, u, w) /\ After(fm, t, x) = After(fm, v, w)
  BY <1>4 DEF u, v
<1>6. j + 1 \in Nat /\ k + 1 \in Nat /\ j + 1 <= k + 1
  OBVIOUS
<1>7. x \in Words(k + 1)
  BY <1>6, WordsAre
<1> QED
  BY <1>1, <1>5, <1>7 DEF Told, Accepts

(* The blocks of the next numbering.                                         *)
LEMMA NewNumbering ==
    ASSUME Sane, NEW c, c = [s \in States |-> Number(H, H[s])]
    PROVE  /\ Blocked(c)
           /\ \A s, t \in States : c[s] = c[t] <=> ib[s] = ib[t] /\ SinkAlike(ib, s, t, D)
<1>1. /\ IsMachine(fm) /\ H \in [States -> Nat]
      /\ \A s \in States : H[s] = Hash(ib, s, D) /\ H[s] \in Values(H)
  BY SaneHashes
<1>2. /\ \A v \in Values(H) : Number(H, v) \in 1 .. fm.n
      /\ \A u, v \in Values(H) : Number(H, u) = Number(H, v) => u = v
  BY <1>1, NumbersOfValues
<1>3. Blocked(c)
  BY <1>1, <1>2 DEF Blocked
<1>4. ASSUME NEW s \in States, NEW t \in States
      PROVE  c[s] = c[t] <=> ib[s] = ib[t] /\ SinkAlike(ib, s, t, D)
  <2>1. c[s] = c[t] <=> H[s] = H[t]
    BY <1>1, <1>2
  <2>2. Hash(ib, s, D) = Hash(ib, t, D) <=> ib[s] = ib[t] /\ SinkAlike(ib, s, t, D)
    BY <1>1, HashesTellApart DEF Sane
  <2> QED
    BY <1>1, <2>1, <2>2
<1> QED
  BY <1>3, <1>4

(* A numbering splits blocks, and only for a reason: that two sinks are      *)
(* apart, by a word one letter shorter, and there is a block more than       *)
(* before.                                                                   *)
LEMMA NumberingRefines ==
    ASSUME Sane, Blocked(temp1), Agreeing(ib), Within(ib, temp1), ToldApart(ib),
           NEW c, c = [s \in States |-> Number(H, H[s])]
    PROVE  /\ Blocked(c) /\ Agreeing(c) /\ Within(c, temp1) /\ ToldApart(c)
           /\ Closed(c, temp1, D)
           /\ \A d \in 1 .. D - 1 : Closed(ib, temp1, d) => Closed(c, temp1, d)
<1>1. /\ Blocked(c)
      /\ \A s, t \in States : c[s] = c[t] <=> ib[s] = ib[t] /\ SinkAlike(ib, s, t, D)
  BY NewNumbering
<1>2. Within(c, ib)
  BY <1>1 DEF Within
<1>3. Agreeing(c)
  BY <1>1 DEF Agreeing
<1>4. Within(c, temp1)
  BY <1>1 DEF Within
<1>5. IsMachine(fm) /\ D \in Labels /\ Blocked(ib)
  BY SaneHashes DEF Sane
<1>6. Closed(c, temp1, D)
  <2> SUFFICES ASSUME NEW s \in States, NEW t \in States, c[s] = c[t]
               PROVE  SinkAlike(temp1, s, t, D)
    BY DEF Closed
  <2>1. SinkAlike(ib, s, t, D)
    BY <1>1
  <2>2. /\ fm.sink[<<s, D>>] # NoSink => fm.sink[<<s, D>>] \in States
        /\ fm.sink[<<t, D>>] # NoSink => fm.sink[<<t, D>>] \in States
    BY <1>5, SinksOfStates
  <2> QED
    BY <2>1, <2>2 DEF SinkAlike, Within
<1>7. \A d \in 1 .. D - 1 : Closed(ib, temp1, d) => Closed(c, temp1, d)
  BY <1>2 DEF Closed, Within
<1>8. ToldApart(c)
  <2> SUFFICES ASSUME NEW s \in States, NEW t \in States, c[s] # c[t]
               PROVE  Told(s, t, Cardinality(Kept(c)) - 1)
    BY DEF ToldApart
  <2>1. PICK k \in 1 .. fm.n : k = Cardinality(Kept(ib))
    BY <1>5, KeptCount
  <2>2. PICK j \in 1 .. fm.n : j = Cardinality(Kept(c))
    BY <1>1, <1>5, KeptCount
  <2>3. k <= j
    BY <1>1, <1>2, <1>5, <2>1, <2>2, KeptGrows
  <2>4. fm.n \in Nat
    BY <1>5 DEF IsMachine
  <2>5. CASE ib[s] # ib[t]
    <3>1. Told(s, t, k - 1)
      BY <2>1, <2>5 DEF ToldApart
    <3>2. k - 1 \in Nat /\ j - 1 \in Nat /\ k - 1 <= j - 1
      BY <2>3, <2>4
    <3> QED
      BY <2>2, <3>1, <3>2, ToldLonger
  <2>6. CASE ib[s] = ib[t]
    <3> DEFINE u == fm.sink[<<s, D>>]
               v == fm.sink[<<t, D>>]
    <3>1. ~ SinkAlike(ib, s, t, D)
      BY <1>1, <2>6
    <3>2. /\ u # NoSink => u \in States
          /\ v # NoSink => v \in States
          /\ s # NoSink /\ t # NoSink
      BY <1>5, SinksOfStates
    <3>3. Onward(fm, s, D) = u /\ Onward(fm, t, D) = v
      BY <3>2 DEF Onward
    <3>4. ((u = NoSink) # (v = NoSink)) \/ (u # NoSink /\ v # NoSink /\ ib[u] # ib[v])
      BY <3>1 DEF SinkAlike
    <3> HIDE DEF u, v
    <3>5. k < j
      BY <1>1, <1>2, <1>5, <2>1, <2>2, <2>6, KeptGrows
    <3>6. PICK i \in Nat : i = k - 1 /\ k = i + 1
      BY <2>4
    <3>7. Told(u, v, i)
      <4>1. CASE (u = NoSink) # (v = NoSink)
        BY <4>1, ToldAtOnce
      <4>2. CASE u # NoSink /\ v # NoSink /\ ib[u] # ib[v]
        <5>1. u \in States /\ v \in States
          BY <3>2, <4>2
        <5> QED
          BY <2>1, <3>6, <4>2, <5>1 DEF ToldApart
      <4> QED
        BY <3>4, <4>1, <4>2
    <3>8. Told(s, t, k)
      BY <1>5, <3>3, <3>6, <3>7, ToldBefore
    <3>9. k \in Nat /\ j - 1 \in Nat /\ k <= j - 1
      BY <2>4, <3>5
    <3> QED
      BY <2>2, <3>8, <3>9, ToldLonger
  <2> QED
    BY <2>5, <2>6
<1> QED
  BY <1>1, <1>3, <1>4, <1>6, <1>7, <1>8

-----------------------------------------------------------------------------
PartInv ==
    master # "read" =>
        /\ Sane /\ Blocked(temp1)
        /\ Agreeing(ib) /\ Within(ib, temp1) /\ ToldApart(ib)
        /\ \A d \in 1 .. D - 1 : Closed(ib, temp1, d)
        /\ master \in {"print", "done"} => temp1 = ib /\ \A d \in Labels : Closed(ib, ib, d)
        /\ master = "done" => merged = Merged

(* The two blocks rank 0 starts with.                                        *)
FirstBlocks ==
    /\ fm \in MachineFiles /\ D = 1 /\ master = "setup" /\ temp1 = ib
    /\ ib = [s \in States |-> IF s \in fm.final THEN 1 ELSE 2]

(* Final states and others are told apart by the empty word.                 *)
LEMMA FirstBlocksArePart == FirstBlocks => PartInv
<1> SUFFICES ASSUME FirstBlocks PROVE PartInv
  OBVIOUS
<1>1. /\ fm \in MachineFiles /\ D = 1 /\ master = "setup" /\ temp1 = ib
      /\ ib = [s \in States |-> IF s \in fm.final THEN 1 ELSE 2]
  BY DEF FirstBlocks
<1>2. IsMachine(fm)
  BY <1>1, MachinesAssumption
<1>3. fm.n \in Nat /\ fm.n >= 2 /\ fm.l \in Nat /\ fm.l >= 1
  BY <1>2 DEF IsMachine
<1>4. Blocked(ib) /\ D \in Labels
  BY <1>1, <1>3 DEF Blocked, Labels
<1>5. Agreeing(ib) /\ Within(ib, temp1)
  BY <1>1 DEF Agreeing, Within
<1>6. ToldApart(ib)
  <2> SUFFICES ASSUME NEW s \in States, NEW t \in States, ib[s] # ib[t]
               PROVE  Told(s, t, Cardinality(Kept(ib)) - 1)
    BY DEF ToldApart
  <2>1. (s \in fm.final) # (t \in fm.final)
    BY <1>1
  <2>2. PICK k \in Nat : k = Cardinality(Kept(ib)) - 1
    <3>1. Cardinality(Kept(ib)) \in 1 .. fm.n
      BY <1>2, <1>4, KeptCount
    <3> QED
      BY <1>3, <3>1
  <2> QED
    BY <2>1, <2>2, ToldAtOnce
<1>7. 1 .. D - 1 = {}
  BY <1>1
<1> QED
  BY <1>1, <1>4, <1>5, <1>6, <1>7 DEF PartInv, Sane

(* The partition starts with the machine.                                    *)
LEMMA ReadKeepsPart ==
    ASSUME D = 1, NEW m \in MachineFiles, NEW c \in ProcCounts, ReadMachine(m, c)
    PROVE  PartInv'
<1>1. FirstBlocks'
  BY DEF ReadMachine, FirstBlocks, States
<1>2. FirstBlocks' => PartInv'
  BY FirstBlocksArePart, PTL
<1> QED
  BY <1>1, <1>2

(* What leaves the machine and the numbers alone.                            *)
LEMMA PartStays ==
    ASSUME PartInv, UNCHANGED <<fm, D, ib, temp1>>,
           master = "read" => master' = "read",
           master' \in {"print", "done"} => master \in {"print", "done"},
           master' = "done" => merged' = Merged
    PROVE  PartInv'
<1>1. /\ Sane' <=> Sane
      /\ \A d : Closed(ib, temp1, d)' <=> Closed(ib, temp1, d)
      /\ \A d : Closed(ib, ib, d)' <=> Closed(ib, ib, d)
  BY DEF Sane, Labels, Blocked, States, Closed, SinkAlike
<1>2. /\ Blocked(temp1)' <=> Blocked(temp1)
      /\ Agreeing(ib)' <=> Agreeing(ib)
      /\ Within(ib, temp1)' <=> Within(ib, temp1)
      /\ Labels' = Labels
  BY DEF Blocked, Agreeing, Within, Labels, States
<1>3. ToldApart(ib)' <=> ToldApart(ib)
  BY DEF ToldApart, Kept, Told, Words, Accepts, Labels, States
<1>4. Merged' = Merged
  BY DEF Merged, States, Labels
<1> QED
  BY <1>1, <1>2, <1>3, <1>4 DEF PartInv

(* The blocks rank 0 puts together from the slices are the next numbering;   *)
(* after the last label of a round that changed nothing the partition is     *)
(* closed.                                                                   *)
LEMMA NextLabelKeepsPart ==
    ASSUME LockInv, DataInv, PartInv, Ranks \subseteq AllRanks, NextLabel
    PROVE  PartInv'
<1>1. Gathered("block") /\ master = "block"
  BY DEF NextLabel, Gathered
<1>2. /\ Sane /\ Blocked(temp1)
      /\ Agreeing(ib) /\ Within(ib, temp1) /\ ToldApart(ib)
      /\ \A d \in 1 .. D - 1 : Closed(ib, temp1, d)
  BY <1>1 DEF PartInv
<1>3. PICK c : c = [s \in States |-> Number(H, H[s])]
  OBVIOUS
<1>4. ib' = c
  <2>1. ASSUME NEW r \in Ranks PROVE slices[r] = [s \in Slice(r) |-> Number(H, H[s])]
    <3>1. slices[r] = Answer("block", r)
      BY <1>1, AllQuiet DEF Gathering
    <3> QED
      BY <3>1 DEF Answer
  <2>2. ASSUME NEW r \in Ranks PROVE slices[r] = [s \in Slice(r) |-> c[s]]
    BY <1>3, <2>1 DEF Slice
  <2>3. Whole = [s \in States |-> c[s]]
    BY <1>2, <2>2, WholeOf
  <2> QED
    BY <1>3, <2>3 DEF NextLabel
<1>5. /\ Blocked(c) /\ Agreeing(c) /\ Within(c, temp1) /\ ToldApart(c)
      /\ Closed(c, temp1, D)
      /\ \A d \in 1 .. D - 1 : Closed(ib, temp1, d) => Closed(c, temp1, d)
  BY <1>2, <1>3, NumberingRefines
<1>6. fm.l \in Nat /\ fm.l >= 1 /\ D \in 1 .. fm.l
  BY <1>2, SaneHashes DEF Sane, IsMachine, Labels
<1>7. \A d \in 1 .. D : Closed(c, temp1, d)
  <2> SUFFICES ASSUME NEW d \in 1 .. D PROVE Closed(c, temp1, d)
    OBVIOUS
  <2>1. d = D \/ d \in 1 .. D - 1
    BY <1>6
  <2> QED
    BY <1>2, <1>5, <2>1
<1>8. fm' = fm /\ merged' = merged
  BY DEF NextLabel
<1>9. /\ Blocked(ib)' <=> Blocked(c)
      /\ Agreeing(ib)' <=> Agreeing(c)
      /\ ToldApart(ib)' <=> ToldApart(c)
      /\ Labels' = Labels /\ States' = States
  BY <1>4, <1>8
     DEF Blocked, Agreeing, ToldApart, Kept, Told, Words, Accepts, Labels, States
<1>10. CASE D < fm.l
  <2>1. D' = D + 1 /\ master' = "blocks" /\ temp1' = temp1
    BY <1>10 DEF NextLabel
  <2>2. D' \in Labels /\ D' - 1 = D
    BY <1>6, <1>10, <2>1 DEF Labels
  <2>3. Sane'
    BY <1>2, <1>5, <1>8, <1>9, <2>2 DEF Sane
  <2>4. Blocked(temp1)' /\ Within(ib, temp1)'
    BY <1>2, <1>4, <1>5, <1>9, <1>8, <2>1 DEF Blocked, Within, States
  <2>5. ASSUME NEW d \in (1 .. D - 1)' PROVE Closed(ib, temp1, d)'
    <3>1. d \in 1 .. D
      BY <2>2
    <3>2. Closed(c, temp1, d)
      BY <1>7, <3>1
    <3> QED
      BY <1>4, <1>8, <2>1, <3>2 DEF Closed, SinkAlike, States
  <2> QED
    BY <1>5, <1>9, <2>1, <2>3, <2>4, <2>5 DEF PartInv
<1>11. CASE ~ (D < fm.l)
  <2>1. D' = 1 /\ master' = IF temp1 # c THEN "blocks" ELSE "print"
    BY <1>4, <1>11 DEF NextLabel
  <2>2. temp1' = c
    BY <1>4, <1>11 DEF NextLabel
  <2>3. Sane'
    BY <1>2, <1>5, <1>6, <1>8, <1>9, <2>1 DEF Sane, Labels
  <2>4. Blocked(temp1)' /\ Within(ib, temp1)'
    BY <1>4, <1>5, <1>8, <2>2 DEF Blocked, Within, States
  <2>5. (1 .. D - 1)' = {}
    BY <2>1
  <2>6. ASSUME temp1 = c, NEW d \in Labels' PROVE Closed(ib, ib, d)'
    <3>1. d \in 1 .. D
      BY <1>6, <1>8, <1>11 DEF Labels
    <3>2. Closed(c, c, d)
      BY <1>7, <2>6, <3>1
    <3> QED
      BY <1>4, <1>8, <3>2 DEF Closed, SinkAlike, States
  <2> QED
    BY <1>4, <1>5, <1>9, <2>1, <2>2, <2>3, <2>4, <2>5, <2>6 DEF PartInv
<1> QED
  BY <1>10, <1>11

-----------------------------------------------------------------------------
(* A map of states that goes along with every letter goes along with words.  *)
GoesAlong(m, F, p, S) ==
    \A x \in S, d \in Labels :
        Onward(p, x, d) \in S /\ Onward(m, F[x], d) = F[Onward(p, x, d)]

LEMMA WordsAreMapped ==
    ASSUME NEW m, NEW p, NEW S, NEW F, GoesAlong(m, F, p, S),
           NEW s \in S, NEW k \in Nat, NEW w \in Words(k)
    PROVE  After(p, s, w) \in S /\ After(m, F[s], w) = F[After(p, s, w)]
<1>1. PICK j \in Nat : j = Len(w)
  BY WordsAre
<1>2. w \in [1 .. j -> Labels]
  BY <1>1, WordsAre
<1>3. PICK f : IsRun(f, p, s, w) /\ After(p, s, w) = f[j]
  BY <1>1, AfterEndsRun
<1>4. f[0] = s /\ \A i \in 1 .. j : f[i] = Onward(p, f[i - 1], w[i])
  BY <1>1, <1>3 DEF IsRun
<1>5. \A i \in 0 .. j : f[i] \in S
  <2> DEFINE Bad == { i \in 0 .. j : f[i] \notin S }
  <2> SUFFICES ASSUME Bad # {} PROVE FALSE
    OBVIOUS
  <2>1. Bad \in SUBSET Nat
    OBVIOUS
  <2>2. PICK i \in Bad : \A x \in Bad : i <= x
    BY <2>1, LeastOfNaturals
  <2>3. i \in 0 .. j /\ f[i] \notin S
    BY <2>2
  <2>4. i # 0
    BY <1>4, <2>3
  <2>5. i \in 1 .. j /\ i - 1 \in 0 .. j /\ ~ (i <= i - 1)
    BY <2>3, <2>4
  <2>6. f[i - 1] \in S
    BY <2>2, <2>5
  <2> QED
    BY <1>2, <1>4, <2>3, <2>5, <2>6 DEF GoesAlong
<1> DEFINE g == [i \in 0 .. j |-> F[f[i]]]
<1>6. /\ DOMAIN g = 0 .. j /\ \A i \in 0 .. j : g[i] = F[f[i]]
  OBVIOUS
<1> HIDE DEF g
<1>7. ASSUME NEW i \in 1 .. j PROVE g[i] = Onward(m, g[i - 1], w[i])
  <2>1. i \in 0 .. j /\ i - 1 \in 0 .. j /\ w[i] \in Labels
    BY <1>2
  <2>2. f[i - 1] \in S
    BY <1>5, <2>1
  <2>3. Onward(m, F[f[i - 1]], w[i]) = F[Onward(p, f[i - 1], w[i])]
    BY <2>1, <2>2 DEF GoesAlong
  <2> QED
    BY <1>4, <1>6, <2>1, <2>3
<1>8. 0 \in 0 .. j /\ j \in 0 .. j
  OBVIOUS
<1>9. IsRun(g, m, F[s], w)
  BY <1>1, <1>4, <1>6, <1>7, <1>8 DEF IsRun
<1>10. After(m, F[s], w) = g[j]
  BY <1>1, <1>9, AfterEndsRun
<1> QED
  BY <1>3, <1>5, <1>6, <1>8, <1>10

Final ==
    /\ Sane /\ Agreeing(ib) /\ ToldApart(ib) /\ temp1 = ib
    /\ \A d \in Labels : Closed(ib, ib, d)
    /\ merged = Merged

(* The machine that is printed.                                              *)
LEMMA MergedIs ==
    ASSUME Final
    PROVE  /\ merged.begin = First(ib, fm.begin)
           /\ merged.final = fm.final \cap Kept(ib)
           /\ DOMAIN merged.sink = Kept(ib) \X Labels
           /\ \A s \in Kept(ib), d \in Labels :
                 merged.sink[<<s, d>>] = IF fm.sink[<<s, d>>] = NoSink THEN NoSink
                                         ELSE First(ib, fm.sink[<<s, d>>])
<1>1. temp1 = ib /\ merged = Merged
  BY DEF Final
<1> DEFINE K == Kept(ib)
           Sinks == [x \in K \X Labels |->
                        IF fm.sink[x] = NoSink THEN NoSink ELSE First(ib, fm.sink[x])]
<1>2. Merged = [begin |-> First(ib, fm.begin), final |-> fm.final \cap K, sink |-> Sinks]
  BY <1>1 DEF Merged, Kept
<1> HIDE DEF K
<1>3. \A s \in K, d \in Labels :
         Sinks[<<s, d>>] = IF fm.sink[<<s, d>>] = NoSink THEN NoSink
                           ELSE First(ib, fm.sink[<<s, d>>])
  OBVIOUS
<1>4. DOMAIN Sinks = K \X Labels
  OBVIOUS
<1> HIDE DEF Sinks
<1> QED
  BY <1>1, <1>2, <1>3, <1>4 DEF K

(* The first state of a block does what the states of the block did.         *)
LEMMA FirstBehaves ==
    ASSUME Final, NEW s \in States, NEW k \in Nat, NEW w \in Words(k)
    PROVE  /\ Accepts(merged, First(ib, s), w) <=> Accepts(fm, s, w)
           /\ After(merged, First(ib, s), w) = NoSink <=> After(fm, s, w) = NoSink
<1>1. /\ Sane /\ Agreeing(ib) /\ \A d \in Labels : Closed(ib, ib, d)
  BY DEF Final
<1>2. IsMachine(fm) /\ Blocked(ib)
  BY <1>1, SaneHashes DEF Sane
<1>3. NoSink \notin States /\ fm.final \subseteq States
  BY <1>2, SinksOfStates, MachinesAssumption DEF IsMachine, States
<1> DEFINE S == States \cup {NoSink}
           F == [x \in S |-> IF x = NoSink THEN NoSink ELSE First(ib, x)]
<1>4. F[NoSink] = NoSink /\ \A x \in States : F[x] = First(ib, x) /\ x \in S /\ x # NoSink
  BY <1>3
<1>5. NoSink \in S /\ \A x \in S : x = NoSink \/ x \in States
  OBVIOUS
<1> HIDE DEF F, S
<1>6. \A x \in States : F[x] \in States /\ F[x] \in Kept(ib) /\ ib[F[x]] = ib[x]
  BY <1>2, <1>4, FirstOfBlock DEF Kept
<1>7. ASSUME NEW x \in S, NEW d \in Labels
      PROVE  Onward(fm, x, d) \in S /\ Onward(merged, F[x], d) = F[Onward(fm, x, d)]
  <2>1. CASE x = NoSink
    BY <1>4, <1>5, <2>1 DEF Onward
  <2>2. CASE x \in States
    <3> DEFINE u == fm.sink[<<x, d>>]
               v == fm.sink[<<F[x], d>>]
    <3>1. Onward(fm, x, d) = u
      BY <1>4, <2>2 DEF Onward
    <3>2. Onward(merged, F[x], d) = merged.sink[<<F[x], d>>]
      BY <1>4, <1>6, <2>2 DEF Onward
    <3>3. merged.sink[<<F[x], d>>] = IF v = NoSink THEN NoSink ELSE First(ib, v)
      BY <1>6, <2>2, MergedIs
    <3>4. SinkAlike(ib, F[x], x, d)
      BY <1>1, <1>6, <2>2 DEF Closed
    <3>5. (v = NoSink <=> u = NoSink) /\ (v # NoSink => ib[v] = ib[u])
      BY <3>4 DEF SinkAlike
    <3>6. (u # NoSink => u \in States) /\ (v # NoSink => v \in States)
      BY <1>2, <1>6, <2>2, SinksOfStates
    <3> HIDE DEF u, v
    <3>7. CASE u = NoSink
      BY <1>4, <1>5, <3>1, <3>2, <3>3, <3>5, <3>7
    <3>8. CASE u # NoSink
      <4>1. First(ib, v) = First(ib, u)
        BY <1>2, <3>5, <3>6, <3>8, FirstOfBlock
      <4> QED
        BY <1>4, <3>1, <3>2, <3>3, <3>5, <3>6, <3>8, <4>1
    <3> QED
      BY <3>7, <3>8
  <2> QED
    BY <1>5, <2>1, <2>2
<1>8. After(fm, s, w) \in S /\ After(merged, F[s], w) = F[After(fm, s, w)]
  <2>1. s \in S
    BY <1>4
  <2>2. GoesAlong(merged, F, fm, S)
    BY <1>7 DEF GoesAlong
  <2> QED
    BY <2>1, <2>2, WordsAreMapped
<1> DEFINE y == After(fm, s, w)
<1>9. F[y] \in merged.final <=> y \in fm.final
  <2> HIDE DEF y
  <2>1. merged.final = fm.final \cap Kept(ib)
    BY MergedIs
  <2>2. CASE y = NoSink
    BY <1>3, <1>4, <2>1, <2>2
  <2>3. CASE y \in States
    BY <1>1, <1>6, <2>1, <2>3 DEF Agreeing
  <2> QED
    BY <1>5, <1>8, <2>2, <2>3 DEF y
<1>10. F[y] = NoSink <=> y = NoSink
  BY <1>3, <1>4, <1>5, <1>6, <1>8
<1> QED
  BY <1>4, <1>8, <1>9, <1>10 DEF Accepts

(* The words fewer than K letters long that told the K blocks apart tell the *)
(* kept states of the merged machine apart, and each of them does what its   *)
(* whole block did.                                                          *)
LEMMA PartIsMinimal == PartInv => PrintsMinimal
<1> SUFFICES ASSUME PartInv, master = "done" PROVE PrintsMinimal
  BY DEF PrintsMinimal
<1>1. Final
  BY DEF PartInv, Final
<1>2. Sane /\ IsMachine(fm) /\ Blocked(ib) /\ ToldApart(ib)
  BY <1>1, SaneHashes DEF Sane, Final
<1>3. fm.n \in Nat /\ fm.n >= 2 /\ fm.begin \in States
  BY <1>2 DEF IsMachine, States
<1>4. ASSUME NEW w \in Words(fm.n)
      PROVE  Accepts(merged, merged.begin, w) <=> Accepts(fm, fm.begin, w)
  BY <1>1, <1>3, FirstBehaves, MergedIs
<1>5. ASSUME NEW s \in { x[1] : x \in DOMAIN merged.sink },
             NEW t \in { x[1] : x \in DOMAIN merged.sink }, s # t
      PROVE  ~ Alike(merged, s, t)
  <2>1. s \in Kept(ib) /\ t \in Kept(ib)
    BY <1>1, MergedIs
  <2>2. s \in States /\ t \in States /\ First(ib, s) = s /\ First(ib, t) = t
    BY <1>2, <2>1, KeptCount
  <2>3. ib[s] # ib[t]
    BY <1>2, <1>5, <2>2, FirstOfBlock
  <2>4. PICK k \in 1 .. fm.n : k = Cardinality(Kept(ib))
    BY <1>2, KeptCount
  <2>5. Told(s, t, k - 1)
    BY <1>2, <2>2, <2>3, <2>4 DEF ToldApart
  <2>6. PICK n \in Nat : n = fm.n - 1 /\ k - 1 <= n /\ k - 1 \in Nat
    BY <1>3
  <2>7. Told(s, t, n)
    BY <2>5, <2>6, ToldLonger
  <2>8. PICK w \in Words(n) : \/ Accepts(fm, s, w) # Accepts(fm, t, w)
                              \/ (After(fm, s, w) = NoSink) # (After(fm, t, w) = NoSink)
    BY <2>7 DEF Told
  <2>9. /\ Accepts(merged, s, w) <=> Accepts(fm, s, w)
        /\ Accepts(merged, t, w) <=> Accepts(fm, t, w)
        /\ After(merged, s, w) = NoSink <=> After(fm, s, w) = NoSink
        /\ After(merged, t, w) = NoSink <=> After(fm, t, w) = NoSink
    BY <1>1, <2>2, FirstBehaves
  <2> QED
    BY <2>6, <2>8, <2>9 DEF Alike, Accepts
<1> QED
  BY <1>4, <1>5 DEF PrintsMinimal

-----------------------------------------------------------------------------
(* The inductive invariant of the result.                                    *)
MinInv == LockInv /\ Manned /\ DataInv /\ PartInv

(* Before the job starts.                                                    *)
LEMMA MinInvInit == ParInit => MinInv
<1> SUFFICES ASSUME ParInit PROVE MinInv
  OBVIOUS
<1>1. LockInv
  BY LockInvInit
<1>2. master = "read"
  BY DEF ParInit
<1> QED
  BY <1>1, <1>2 DEF MinInv, Manned, DataInv, Running, PartInv

(* No step of a running job changes the machine or the number of processes.  *)
LEMMA MannedKeeps ==
    ASSUME Manned, ParNext
    PROVE  Manned'
<1>1. ASSUME NEW m \in MachineFiles, NEW c \in ProcCounts, ReadMachine(m, c) PROVE Manned'
  BY <1>1 DEF ReadMachine, Manned, Running
<1>2. CASE TooFewRanks
  BY <1>2 DEF TooFewRanks, Manned, Running
<1>3. CASE SendSetup
  BY <1>3 DEF SendSetup, SendAll, Manned, Running, Needed, PerRank
<1>4. ASSUME UNCHANGED <<fm, numprocs>>, master # "read", master # "setup", master # "aborted",
             master \notin {"read", "setup", "aborted"}
      PROVE  Manned'
  BY <1>4 DEF Manned, Running, Needed, PerRank
<1>5. CASE SendBlocks \/ SendHashes \/ SendSums \/ SendNumbers \/ NextLabel \/ PrintMachine
  BY <1>4, <1>5 DEF SendBlocks, SendHashes, SendSums, SendNumbers, NextLabel, PrintMachine,
                    SendAll, Gathered
<1>6. ASSUME NEW tag \in {"hash", "count", "newb", "block"}, Gather(tag) PROVE Manned'
  BY <1>4, <1>6 DEF Gather
<1>7. ASSUME NEW r \in AllRanks, RankStep(r) PROVE Manned'
  BY <1>7 DEF RankStep, TakeSetup, HashStates, CountPresent, NumberPresent, UpdateBlocks, Step,
              masterVars, Manned, Running, Needed, PerRank
<1> QED
  BY <1>1, <1>2, <1>3, <1>5, <1>6, <1>7 DEF ParNext, MasterStep

(* Rank 0's messages carry the right data.                                   *)
LEMMA SendsKeepData ==
    ASSUME LockInv, DataInv, Sane, Ranks \subseteq AllRanks,
           SendSetup \/ SendBlocks \/ SendHashes \/ SendSums \/ SendNumbers
    PROVE  DataInv'
<1>1. \A t, data : Message(t, data).tag = t /\ Message(t, data).data = data
  BY DEF Message
<1>2. ASSUME NEW r \in Ranks PROVE r \in AllRanks
  OBVIOUS
<1>3. CASE SendSetup
  <2>1. ASSUME NEW r \in Ranks
        PROVE  \E m : /\ m.tag = "setup" /\ IsOrder("setup", r, m.data)
                      /\ inbox'[r] = Append(inbox[r], m)
    <3>1. inbox'[r] = Append(inbox[r], Message("setup", ib))
      BY <1>2, <1>3 DEF SendSetup, SendAll
    <3>2. IsOrder("setup", r, ib)
      BY DEF IsOrder
    <3> QED
      BY <1>1, <3>1, <3>2
  <2> QED
    BY <1>3, <2>1, SendKeepsData DEF SendSetup, SendAll
<1>4. CASE SendBlocks
  <2>1. ASSUME NEW r \in Ranks
        PROVE  \E m : /\ m.tag = "blocks" /\ IsOrder("blocks", r, m.data)
                      /\ inbox'[r] = Append(inbox[r], m)
    <3>1. inbox'[r] = Append(inbox[r], Message("blocks", ib))
      BY <1>2, <1>4 DEF SendBlocks, SendAll
    <3>2. IsOrder("blocks", r, ib)
      BY DEF IsOrder
    <3> QED
      BY <1>1, <3>1, <3>2
  <2> QED
    BY <1>4, <2>1, SendKeepsData DEF SendBlocks, SendAll
<1>5. ASSUME NEW tag \in Gathering, Gathered(tag), NEW r \in Ranks
      PROVE  slices[r] = Answer(tag, r)
  BY <1>2, <1>5, AllQuiet
<1>6. CASE SendHashes
  <2>1. Gathered("hash")
    BY <1>6 DEF SendHashes
  <2>2. ASSUME NEW r \in Ranks PROVE slices[r] = [s \in Slice(r) |-> H[s]]
    <3>1. slices[r] = Answer("hash", r)
      BY <1>5, <2>1 DEF Gathering
    <3> QED
      BY <3>1 DEF Answer
  <2>3. Whole = H
    <3>1. Whole = [s \in States |-> H[s]]
      BY <2>2, WholeOf
    <3> QED
      BY <3>1 DEF H
  <2>4. ASSUME NEW r \in Ranks
        PROVE  \E m : /\ m.tag = "hashes" /\ IsOrder("hashes", r, m.data)
                      /\ inbox'[r] = Append(inbox[r], m)
    <3> DEFINE order == [h |-> H, B |-> BlockSize(H)]
    <3>1. inbox'[r] = Append(inbox[r], Message("hashes", order))
      BY <1>2, <1>6, <2>3 DEF SendHashes, SendAll
    <3>2. IsOrder("hashes", r, order)
      BY DEF IsOrder
    <3> HIDE DEF order
    <3> QED
      BY <1>1, <3>1, <3>2
  <2> QED
    BY <1>6, <2>1, <2>4, SendKeepsData DEF SendHashes, SendAll
<1>7. CASE SendSums
  <2>1. Gathered("count")
    BY <1>7 DEF SendSums
  <2>2. \A r \in Ranks : slices[r] = Answer("count", r)
    BY <1>5, <2>1 DEF Gathering
  <2>3. ASSUME NEW r \in Ranks
        PROVE  \E m : /\ m.tag = "sum" /\ IsOrder("sum", r, m.data)
                      /\ inbox'[r] = Append(inbox[r], m)
    <3>1. inbox'[r] = Append(inbox[r], Message("sum", PartialSum(r)))
      BY <1>2, <1>7 DEF SendSums, SendAll
    <3>2. PartialSum(r) = Below(H, r)
      BY <2>2, SumIsBelow
    <3>3. IsOrder("sum", r, PartialSum(r))
      BY <3>2 DEF IsOrder
    <3> QED
      BY <1>1, <3>1, <3>3
  <2> QED
    BY <1>7, <2>1, <2>3, SendKeepsData DEF SendSums, SendAll
<1>8. CASE SendNumbers
  <2>1. Gathered("newb")
    BY <1>8 DEF SendNumbers
  <2>2. \A r \in Ranks : slices[r] = Answer("newb", r)
    BY <1>5, <2>1 DEF Gathering
  <2>3. ASSUME NEW r \in Ranks
        PROVE  \E m : /\ m.tag = "numbers" /\ IsOrder("numbers", r, m.data)
                      /\ inbox'[r] = Append(inbox[r], m)
    <3>1. inbox'[r] = Append(inbox[r], Message("numbers", Numbers))
      BY <1>2, <1>8 DEF SendNumbers, SendAll
    <3>2. \A v \in Values(H) : Numbers[v] = Number(H, v)
      BY <2>2, NumbersAreRight
    <3>3. IsOrder("numbers", r, Numbers)
      BY <3>2 DEF IsOrder
    <3> QED
      BY <1>1, <3>1, <3>3
  <2> QED
    BY <1>8, <2>1, <2>3, SendKeepsData DEF SendNumbers, SendAll
<1> QED
  BY <1>3, <1>4, <1>6, <1>7, <1>8

(* Every step of rank 0 and of the others keeps the invariant.               *)
LEMMA MinInvNext == MinInv /\ ParNext => MinInv'
<1> SUFFICES ASSUME MinInv, ParNext PROVE MinInv'
  OBVIOUS
<1>1. LockInv /\ Manned /\ DataInv /\ PartInv
  BY DEF MinInv
<1>2. LockInv' /\ Manned'
  BY <1>1, LockInvNext, MannedKeeps
<1> SUFFICES DataInv' /\ PartInv'
  BY <1>2 DEF MinInv
<1>3. master # "read" => Sane /\ IsMachine(fm)
  BY <1>1, SaneHashes DEF PartInv
<1>4. Running \/ SendSetup => Ranks \subseteq AllRanks
  BY <1>1, <1>3, MannedRanks DEF Manned, Running, SendSetup
<1>5. ASSUME ~ Running' PROVE DataInv'
  BY <1>5 DEF DataInv
<1>6. ASSUME NEW m \in MachineFiles, NEW c \in ProcCounts, ReadMachine(m, c)
      PROVE  DataInv' /\ PartInv'
  <2>1. D = 1
    BY <1>1, <1>6 DEF LockInv, ReadMachine
  <2> QED
    BY <1>5, <1>6, <2>1, ReadKeepsPart DEF ReadMachine, Running
<1>7. CASE TooFewRanks
  <2>1. /\ master = "setup" /\ master' = "aborted"
        /\ UNCHANGED <<fm, D, ib, temp1>>
    BY <1>7 DEF TooFewRanks
  <2>2. PartInv'
    BY <1>1, <2>1, PartStays
  <2> QED
    BY <1>5, <2>1, <2>2 DEF Running
<1>8. CASE SendSetup \/ SendBlocks \/ SendHashes \/ SendSums \/ SendNumbers
  <2>1. master # "read" /\ Ranks \subseteq AllRanks
    BY <1>4, <1>8 DEF SendSetup, SendBlocks, SendHashes, SendSums, SendNumbers, Gathered, Running
  <2>2. UNCHANGED <<fm, D, ib, temp1>> /\ master' \notin {"print", "done"}
    BY <1>8 DEF SendSetup, SendBlocks, SendHashes, SendSums, SendNumbers, SendAll
  <2>3. PartInv'
    BY <1>1, <2>1, <2>2, PartStays
  <2> QED
    BY <1>1, <1>3, <1>8, <2>1, <2>3, SendsKeepData
<1>9. ASSUME NEW tag \in {"hash", "count", "newb", "block"}, Gather(tag)
      PROVE  DataInv' /\ PartInv'
  <2>1. PartInv'
    <3>1. UNCHANGED <<fm, D, ib, temp1, master>> /\ master = tag
      BY <1>9 DEF Gather
    <3>2. master' # "read" /\ master' \notin {"print", "done"}
      BY <1>9, <3>1
    <3> QED
      BY <1>1, <3>1, <3>2, PartStays
  <2>2. Ranks \subseteq AllRanks /\ tag \in Gathering
    BY <1>4, <1>9 DEF Gather, Running, Gathering
  <2> QED
    BY <1>1, <1>9, <2>1, <2>2, GatherKeepsData
<1>10. CASE NextLabel
  <2>1. Running
    BY <1>10 DEF NextLabel, Gathered, Running
  <2> QED
    BY <1>1, <1>4, <1>10, <2>1, NextLabelKeepsData, NextLabelKeepsPart
<1>11. CASE PrintMachine
  <2>1. /\ master = "print" /\ master' = "done"
        /\ UNCHANGED <<fm, D, ib, temp1>> /\ merged' = Merged
    BY <1>11 DEF PrintMachine
  <2>2. Merged' = Merged
    BY <2>1 DEF Merged, States, Labels
  <2>3. PartInv'
    BY <1>1, <2>1, <2>2, PartStays
  <2> QED
    BY <1>1, <1>11, <2>3, PrintKeepsData
<1>12. ASSUME NEW r \in AllRanks, RankStep(r) PROVE DataInv' /\ PartInv'
  <2>1. UNCHANGED <<fm, D, ib, temp1, master, merged>>
    BY <1>12 DEF RankStep, TakeSetup, HashStates, CountPresent, NumberPresent, UpdateBlocks, Step,
                 masterVars
  <2>2. Merged' = Merged
    BY <2>1 DEF Merged, States, Labels
  <2>3. PartInv'
    <3>1. master' = "done" => merged' = Merged
      BY <1>1, <2>1, <2>2 DEF PartInv
    <3> QED
      BY <1>1, <2>1, <3>1, PartStays
  <2>4. CASE TakeSetup(r)
    BY <1>1, <2>3, <2>4, SetupKeepsData
  <2>5. CASE ~ TakeSetup(r)
    <3>1. HashStates(r) \/ CountPresent(r) \/ NumberPresent(r) \/ UpdateBlocks(r)
      BY <1>12, <2>5 DEF RankStep
    <3>2. \E tag : Delivered(r, tag) /\ tag # "left"
      BY <3>1 DEF HashStates, CountPresent, NumberPresent, UpdateBlocks
    <3>3. master # "read"
      BY <1>1, <3>2, DeliveredInPhase DEF Running
    <3> QED
      BY <1>1, <1>3, <2>3, <3>1, <3>3, RankStepKeepsData
  <2> QED
    BY <2>3, <2>4, <2>5
<1> QED
  BY <1>6, <1>7, <1>8, <1>9, <1>10, <1>11, <1>12 DEF ParNext, MasterStep

LEMMA MinInvStutter == MinInv /\ UNCHANGED parVars => MinInv'
<1> SUFFICES ASSUME MinInv, UNCHANGED parVars PROVE MinInv'
  OBVIOUS
<1>1. UNCHANGED <<fm, numprocs, master, D, slices, ib, temp1, merged, worker, inbox, outbox>>
  BY DEF parVars, masterVars
<1>2. LockInv'
  BY LockInvStutter DEF MinInv
<1>3. Manned'
  BY <1>1 DEF MinInv, Manned, Running, Needed, PerRank
<1>4. PartInv'
  <2>1. Merged' = Merged
    BY <1>1 DEF Merged, States, Labels
  <2> QED
    BY <1>1, <2>1, PartStays DEF MinInv, PartInv
<1>5. DataInv'
  <2>1. /\ Ranks' = Ranks /\ H' = H /\ BlockSize(H)' = BlockSize(H)
        /\ \A r, tag : Answer(tag, r)' = Answer(tag, r)
        /\ \A r, tag, data : IsOrder(tag, r, data)' <=> IsOrder(tag, r, data)
    BY <1>1, DataStays
  <2>2. \A r \in Ranks : RightData(r) => RightData(r)'
    BY <1>1, <2>1 DEF RightData, Heard
  <2> QED
    BY <1>1, <2>1, <2>2 DEF MinInv, DataInv, Running
<1> QED
  BY <1>2, <1>3, <1>4, <1>5 DEF MinInv

(* The machine parMPI.cpp prints accepts the words the one it read accepts,  *)
(* and no two of its states behave alike, for any machines and any numbers   *)
(* of processes.                                                             *)
THEOREM MinimiserPrintsMinimal == ParSpec => []PrintsMinimal
<1>1. MinInv => PrintsMinimal
  BY PartIsMinimal DEF MinInv
<1> QED
  BY <1>1, MinInvInit, MinInvNext, MinInvStutter, PTL DEF ParSpec
=============================================================================
