----------------------------- MODULE ParMinimise -----------------------------
(***************************************************************************)
(* The parallel minimiser of grail, parMPI.cpp: rank 0 reads a             *)
(* deterministic machine and hands every other rank an interval of its     *)
(* states; round by round and label by label they number the blocks of a   *)
(* partition of the states, until a round changes no number.  Both sides   *)
(* decide for themselves when that is: the ranks by the part of the        *)
(* numbers they have seen.                                                 *)
(*                                                                         *)
(* Sends do not block (the messages are small) and messages between two    *)
(* ranks keep their order.  Sends with no receive between them are one     *)
(* message: the eight of the setup, and the hash values with their bound.  *)
(* The elements past the number of states that a slice carries along are   *)
(* never read and are left out.                                            *)
(***************************************************************************)
EXTENDS Integers, Sequences, FiniteSets, FiniteSetsExt

CONSTANTS MachineFiles,     (* the machines in the files                         *)
          ProcCounts,   (* the numbers of processes mpirun is asked for      *)
          NoSink        (* where a state has no transition on a label        *)

(* A machine has states 0 .. n-1, labels 1 .. l, and sinks for each pair.    *)
IsMachine(m) ==
    /\ DOMAIN m = {"n", "l", "begin", "final", "sink"}
    /\ m.n \in Nat /\ m.n >= 2
    /\ m.l \in Nat /\ m.l >= 1
    /\ m.begin \in 0 .. m.n - 1
    /\ m.final \subseteq 0 .. m.n - 1
    /\ m.sink \in [(0 .. m.n - 1) \X (1 .. m.l) -> (0 .. m.n - 1) \cup {NoSink}]

ASSUME MachinesAssumption ==
    /\ \A m \in MachineFiles : IsMachine(m)
    /\ ProcCounts \subseteq Nat \ {0}
    /\ \E c \in ProcCounts : \A d \in ProcCounts : d <= c
    /\ NoSink \notin Nat

VARIABLES
    fm,        (* the machine read: states, labels, transition                *)
    numprocs,  (* processes of this job                                       *)
    master,    (* what rank 0 is doing: the tag it sends or waits for next    *)
    D,         (* the label of rank 0's loop                                  *)
    slices,    (* what rank 0 has received in this gathering, rank by rank    *)
    ib,        (* its block numbers                                           *)
    temp1,     (* those of the round before                                   *)
    merged,    (* the machine it prints in the end                            *)
    worker,    (* the other ranks: what they wait for, and their arrays       *)
    inbox,     (* messages from rank 0 to each rank                           *)
    outbox     (* messages from each rank to rank 0                           *)

masterVars == <<fm, numprocs, master, D, slices, ib, temp1, merged>>
parVars == <<masterVars, worker, inbox, outbox>>

States == 0 .. fm.n - 1
Labels == 1 .. fm.l

(* p and q: a rank gets p = ceil(log2 n) states, so q = ceil(n / p) ranks    *)
(* are needed.                                                               *)
CeilLog(n) == CHOOSE k \in 1 .. n : 2 ^ (k - 1) < n /\ n <= 2 ^ k
PerRank == CeilLog(fm.n)
Needed  == (fm.n + PerRank - 1) \div PerRank
Ranks   == 1 .. Needed

Slice(r) == { s \in States : (r - 1) * PerRank <= s /\ s < r * PerRank }
Owner(s) == (s \div PerRank) + 1

AllRanks == 1 .. Max(ProcCounts) - 1

(* Before the job starts: nothing is read, every rank waits for the setup.   *)
NoMachine == [n |-> 0, l |-> 0]
Idle == [wait |-> "setup", label |-> 1, b |-> <<>>, cb |-> <<>>, h |-> <<>>, B |-> 0]

ParInit ==
    /\ fm = NoMachine
    /\ numprocs = 0
    /\ master = "read"
    /\ D = 1
    /\ slices = <<>>
    /\ ib = <<>>
    /\ temp1 = <<>>
    /\ merged = NoMachine
    /\ worker = [r \in AllRanks |-> Idle]
    /\ inbox = [r \in AllRanks |-> <<>>]
    /\ outbox = [r \in AllRanks |-> <<>>]

(* Rank 0 reads the machine and gives block 1 to the final states, 2 to the  *)
(* others.                                                                   *)
ReadMachine(m, c) ==
    /\ master = "read"
    /\ fm' = m
    /\ numprocs' = c
    /\ ib' = [s \in 0 .. m.n - 1 |-> IF s \in m.final THEN 1 ELSE 2]
    /\ temp1' = ib'
    /\ master' = "setup"
    /\ UNCHANGED <<D, slices, merged, worker, inbox, outbox>>

(* A send to a rank that does not exist ends the job.                        *)
TooFewRanks ==
    /\ master = "setup"
    /\ Needed >= numprocs
    /\ master' = "aborted"
    /\ UNCHANGED <<fm, numprocs, D, slices, ib, temp1, merged, worker, inbox, outbox>>

Message(tag, data) == [tag |-> tag, data |-> data]

(* One message to each of the ranks in use, then on to the next tag.         *)
SendAll(tag, data(_), next) ==
    /\ inbox' = [r \in AllRanks |-> IF r \in Ranks THEN Append(inbox[r], Message(tag, data(r)))
                                                   ELSE inbox[r]]
    /\ master' = next
    /\ slices' = <<>>
    /\ UNCHANGED <<fm, numprocs, D, ib, temp1, merged, worker, outbox>>

SendSetup ==
    /\ master = "setup"
    /\ Needed < numprocs
    /\ SendAll("setup", LAMBDA r : ib, "blocks")

SendBlocks ==
    /\ master = "blocks"
    /\ SendAll("blocks", LAMBDA r : ib, "hash")

(* The next of the receives, rank by rank, of one gathering.                 *)
Gather(tag) ==
    LET r == Len(slices) + 1 IN
    /\ master = tag
    /\ r \in Ranks
    /\ outbox[r] # <<>>
    /\ Head(outbox[r]).tag = tag
    /\ slices' = Append(slices, Head(outbox[r]).data)
    /\ outbox' = [outbox EXCEPT ![r] = Tail(@)]
    /\ UNCHANGED <<fm, numprocs, master, D, ib, temp1, merged, worker, inbox>>

Gathered(tag) == master = tag /\ Len(slices) = Needed

(* The gathered slices as one array.                                         *)
Whole == [s \in States |-> slices[Owner(s)][s]]

(* V and B: B * n is the first multiple of n above every hash value.         *)
Largest(h) == Max({ h[s] : s \in States })
BlockSize(h) == (Largest(h) + (fm.n - (Largest(h) % fm.n))) \div fm.n

SendHashes ==
    /\ Gathered("hash")
    /\ SendAll("hashes", LAMBDA r : [h |-> Whole, B |-> BlockSize(Whole)], "count")

(* The hash values present below a rank's interval: is[r - 1].               *)
PartialSum(r) ==
    LET is[O \in 0 .. Needed] == IF O = 0 THEN 0 ELSE is[O - 1] + slices[O]
    IN  is[r - 1]

SendSums ==
    /\ Gathered("count")
    /\ SendAll("sum", PartialSum, "newb")

(* The numbers of all hash values: the union of the ranks' intervals.        *)
Numbers == [v \in UNION { DOMAIN slices[r] : r \in Ranks } |->
               LET r == CHOOSE q \in Ranks : v \in DOMAIN slices[q] IN slices[r][v]]

SendNumbers ==
    /\ Gathered("newb")
    /\ SendAll("numbers", LAMBDA r : Numbers, "block")

LabelKept ==    (* mutation: a new round goes on with the last label *)
    /\ Gathered("block")
    /\ ib' = Whole
    /\ slices' = <<>>
    /\ D' = IF D < fm.l THEN D + 1 ELSE D
    /\ temp1' = IF D < fm.l THEN temp1 ELSE ib'
    /\ master' = IF D < fm.l \/ temp1 # ib' THEN "blocks" ELSE "print"
    /\ UNCHANGED <<fm, numprocs, merged, worker, inbox, outbox>>
(* After the last slice of new block numbers: the next label, or the end of  *)
(* the round and the comparison with the one before.                         *)
NextLabel ==
    /\ Gathered("block")
    /\ ib' = Whole
    /\ slices' = <<>>
    /\ IF D < fm.l THEN /\ D' = D + 1
                        /\ master' = "blocks"
                        /\ UNCHANGED temp1
                   ELSE /\ D' = 1
                        /\ temp1' = ib'
                        /\ master' = IF temp1 # ib' THEN "blocks" ELSE "print"
    /\ UNCHANGED <<fm, numprocs, merged, worker, inbox, outbox>>

(***************************************************************************)
(* The other ranks.                                                        *)
(***************************************************************************)
Delivered(r, tag) ==
    /\ worker[r].wait = tag
    /\ inbox[r] # <<>>
    /\ Head(inbox[r]).tag = tag

Data(r) == Head(inbox[r]).data

(* A receive, the work on what came, and what is sent back, if anything.     *)
Step(r, w, reply) ==
    /\ inbox' = [inbox EXCEPT ![r] = Tail(@)]
    /\ worker' = [worker EXCEPT ![r] = w]
    /\ outbox' = [outbox EXCEPT ![r] = @ \o reply]
    /\ UNCHANGED masterVars

TakeSetup(r) ==
    /\ Delivered(r, "setup")
    /\ Step(r, [worker[r] EXCEPT !.cb = Data(r), !.wait = "blocks"], <<>>)

SinkOnly(b, s, label) ==    (* mutation: the block of the state itself is lost *)
    LET t == fm.sink[<<s, label>>] IN IF t = NoSink THEN fm.n + 1 ELSE b[t]
(* The hash value of a state puts its own block before that of its sink; no  *)
(* sink counts as a block of its own, n + 1.                                 *)
Hash(b, s, label) ==
    LET t == fm.sink[<<s, label>>]
    IN  b[s] * (fm.n + 1) + IF t = NoSink THEN fm.n + 1 ELSE b[t]

HashStates(r) ==
    LET b == Data(r) IN
    /\ Delivered(r, "blocks")
    /\ Step(r, [worker[r] EXCEPT !.b = b, !.wait = "hashes"],
            <<Message("hash", [s \in Slice(r) |-> Hash(b, s, worker[r].label)])>>)

(* A rank looks after an interval of hash values: PRESENT are those in use.  *)
Interval(r, B) == (r - 1) * B * PerRank + 1 .. r * B * PerRank
Present(h, I)  == I \cap { h[s] : s \in States }

CountPresent(r) ==
    LET I == Interval(r, Data(r).B) IN
    /\ Delivered(r, "hashes")
    /\ Step(r, [worker[r] EXCEPT !.h = Data(r).h, !.B = Data(r).B, !.wait = "sum"],
            <<Message("count", Cardinality(Present(Data(r).h, I)))>>)

NumberedDown(r) ==    (* mutation: the numbers go the other way *)
    LET I == Interval(r, worker[r].B)
        P == Present(worker[r].h, I)
    IN  /\ Delivered(r, "sum")
        /\ Step(r, [worker[r] EXCEPT !.wait = "numbers"],
                <<Message("newb", [v \in I |->
                    IF v \in P THEN Data(r) + Cardinality({ x \in P : x >= v }) ELSE 0])>>)
(* The values in use are numbered upwards from the partial sum.              *)
NumberPresent(r) ==
    LET I == Interval(r, worker[r].B)
        P == Present(worker[r].h, I)
    IN  /\ Delivered(r, "sum")
        /\ Step(r, [worker[r] EXCEPT !.wait = "numbers"],
                <<Message("newb", [v \in I |->
                    IF v \in P THEN Data(r) + Cardinality({ x \in P : x <= v }) ELSE 0])>>)

(* The new block numbers of the rank's own states: b[E] = dnewb[dh[E]].      *)
NewBlocks(r) == [s \in States |-> IF s \in Slice(r) THEN Data(r)[worker[r].h[s]]
                                                    ELSE worker[r].b[s]]

(* After the last label a rank compares what it has with what it had: its    *)
(* own states after this label, the others before it.                        *)
UpdateBlocks(r) ==
    LET w == worker[r]
        b == NewBlocks(r)
        reply == <<Message("block", [s \in Slice(r) |-> b[s]])>>
    IN  /\ Delivered(r, "numbers")
        /\ IF w.label < fm.l
           THEN Step(r, [w EXCEPT !.b = b, !.label = @ + 1, !.wait = "blocks"], reply)
           ELSE Step(r, [w EXCEPT !.b = b, !.label = 1, !.cb = b,
                                  !.wait = IF w.cb # b THEN "blocks" ELSE "left"], reply)

(* Rank 0 merges the states of a block into the first of them: the others'   *)
(* transitions go, and those that led to them lead to it.                    *)
First(b, s) == Min({ t \in DOMAIN b : b[t] = b[s] })
Merged ==
    LET first(s) == First(temp1, s)
        kept     == { first(s) : s \in States }
    IN  [begin |-> first(fm.begin),
         final |-> fm.final \cap kept,
         sink  |-> [x \in kept \X Labels |->
                       IF fm.sink[x] = NoSink THEN NoSink ELSE first(fm.sink[x])]]

PrintMachine ==
    /\ master = "print"
    /\ merged' = Merged
    /\ master' = "done"
    /\ UNCHANGED <<fm, numprocs, D, slices, ib, temp1, worker, inbox, outbox>>

MasterStep ==
    \/ \E m \in MachineFiles, c \in ProcCounts : ReadMachine(m, c)
    \/ TooFewRanks \/ SendSetup \/ SendBlocks \/ SendHashes \/ SendSums \/ SendNumbers
    \/ \E tag \in {"hash", "count", "newb", "block"} : Gather(tag)
    \/ NextLabel
    \/ PrintMachine

RankStep(r) ==
    \/ TakeSetup(r) \/ HashStates(r) \/ CountPresent(r) \/ NumberPresent(r) \/ UpdateBlocks(r)

ParNext == MasterStep \/ \E r \in AllRanks : RankStep(r)

ParFairness == WF_parVars(MasterStep) /\ \A r \in AllRanks : WF_parVars(RankStep(r))

ParSpec     == ParInit /\ [][ParNext]_parVars
ParFairSpec == ParSpec /\ ParFairness

(***************************************************************************)
(* Properties.                                                             *)
(***************************************************************************)
Gathering == {"hash", "count", "newb", "block"}

(* The two ends of every pair of MPI_Send and MPI_Recv meet: a rank that is  *)
(* still in its loop has at most one message on the way between it and rank  *)
(* 0, with the tag that is waited for, and works on the same label.          *)
Lockstep ==
    \A r \in AllRanks : worker[r].wait # "left" =>
        /\ Len(inbox[r]) + Len(outbox[r]) <= IF worker[r].wait = "setup" THEN 2 ELSE 1
        /\ inbox[r] # <<>> => Head(inbox[r]).tag = worker[r].wait
        /\ outbox[r] # <<>> => Head(outbox[r]).tag = master /\ Len(slices) < r
        /\ worker[r].wait \in {"hashes", "sum", "numbers"} => worker[r].label = D

(* Where a machine goes from a state on a letter, and on a word, as long as  *)
(* it has transitions for it.                                                *)
Onward(m, s, a) == IF s = NoSink THEN NoSink ELSE m.sink[<<s, a>>]
After(m, s, w) ==
    LET at[i \in 0 .. Len(w)] == IF i = 0 THEN s ELSE Onward(m, at[i - 1], w[i])
    IN  at[Len(w)]
Accepts(m, s, w) == After(m, s, w) \in m.final
Words(k) == UNION { [1 .. i -> Labels] : i \in 0 .. k }
Alike(m, s, t) == \A w \in Words(fm.n - 1) :
                     /\ Accepts(m, s, w) = Accepts(m, t, w)
                     /\ (After(m, s, w) = NoSink) = (After(m, t, w) = NoSink)

(* The machine rank 0 prints accepts the words the one it read accepts, and  *)
(* no two of its states behave alike.                                        *)
PrintsMinimal ==
    master = "done" =>
        /\ \A w \in Words(fm.n) : Accepts(merged, merged.begin, w) <=> Accepts(fm, fm.begin, w)
        /\ \A s, t \in { x[1] : x \in DOMAIN merged.sink } : s # t => ~ Alike(merged, s, t)

(* A rank has left the loop that rank 0 is still in.                         *)
Deserted ==
    /\ master \in Gathering
    /\ \E r \in Ranks : worker[r].wait = "left" /\ outbox[r] = <<>> /\ Len(slices) < r

(* Rank 0 comes to an end unless a rank gives up before it: the numbering of *)
(* the blocks cannot go on changing.                                         *)
MasterStopsOrIsDeserted ==
    master = "setup" ~> (master \in {"done", "aborted"} \/ Deserted)
=============================================================================
