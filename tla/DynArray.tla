------------------------------ MODULE DynArray ------------------------------
(***************************************************************************)
(* The list behind an array of the parallel minimiser, dynarray1.cpp:      *)
(* operator[] walks a doubly linked list from the nearest of three places, *)
(* its base, the node used last or its end, one node at a time, and grows  *)
(* the list when the index is past its end.                                *)
(*                                                                         *)
(* Node 0 is the base and node j the j-th one appended; nothing is ever    *)
(* unlinked.  Nodes that are allocated and never linked, one in every      *)
(* call, are left out, and so is what the elements hold: what matters is   *)
(* which of them a reference stands for.                                   *)
(***************************************************************************)
EXTENDS Integers

CONSTANTS MaxIndex,  (* bound on the indexes asked for                        *)
          NULL       (* the null pointer                                      *)

ASSUME ArrayAssumption == MaxIndex \in Nat /\ NULL \notin Int

VARIABLES
    size,          (* the elements of the list                                *)
    next, prev,    (* the links of its nodes                                  *)
    latest,        (* the node used last, and its index                       *)
    latest_index,
    endFlag,       (* the last node                                           *)
    call           (* the call that is running: pc, index, temp, i            *)

arrayVars == <<size, next, prev, latest, latest_index, endFlag, call>>

base == 0
Nodes == 0 .. MaxIndex + 1
Links == Nodes \cup {NULL}

Abs(x) == IF x < 0 THEN -x ELSE x

Call(pc, index, temp, i) == [pc |-> pc, index |-> index, temp |-> temp, i |-> i]

(* The constructor; latest_index is not initialised.                         *)
ArrayInit ==
    /\ size = 0
    /\ next = [a \in {base} |-> NULL]
    /\ prev = [a \in {base} |-> NULL]
    /\ latest = NULL
    /\ latest_index \in 0 .. MaxIndex
    /\ endFlag = NULL
    /\ call = Call("idle", 0, NULL, 0)

(* The walk to an index begins at the nearest of the three places.           *)
Find(index) ==
    LET fromStart  == index
        fromEnd    == Abs(size - 1 - index)
        fromLatest == Abs(latest_index - index)
        nearStart  == fromStart <= fromEnd /\ fromStart <= fromLatest
        nearLatest == fromLatest <= fromStart /\ fromLatest <= fromEnd
    IN  /\ call.pc = "idle"
        /\ index < size
        /\ call' = IF nearStart  THEN Call("walk", index, next[base], 0)
              ELSE IF nearLatest THEN Call("walk", index, latest, latest_index)
              ELSE Call("walk", index, endFlag, size - 1)
        /\ UNCHANGED <<size, next, prev, latest, latest_index, endFlag>>

Forward ==
    /\ call.pc = "walk"
    /\ call.i < call.index
    /\ call' = [call EXCEPT !.temp = next[call.temp], !.i = @ + 1]
    /\ UNCHANGED <<size, next, prev, latest, latest_index, endFlag>>

Backward ==
    /\ call.pc = "walk"
    /\ call.i > call.index
    /\ call' = [call EXCEPT !.temp = prev[call.temp], !.i = @ - 1]
    /\ UNCHANGED <<size, next, prev, latest, latest_index, endFlag>>

LatestForgotten ==    (* mutation: latest_index moves without latest *)
    /\ call.pc = "walk"
    /\ call.i = call.index
    /\ latest_index' = call.index
    /\ call' = [call EXCEPT !.pc = "returned"]
    /\ UNCHANGED <<size, next, prev, latest, endFlag>>
(* The reference to temp->data is returned.                                  *)
Arrive ==
    /\ call.pc = "walk"
    /\ call.i = call.index
    /\ latest' = call.temp
    /\ latest_index' = call.index
    /\ call' = [call EXCEPT !.pc = "returned"]
    /\ UNCHANGED <<size, next, prev, endFlag>>

(* Nodes are appended up to the index, behind the end or the base.           *)
Grow(index) ==
    LET tail == IF size > 0 THEN endFlag ELSE base
        new  == size + 1 .. index + 1
    IN  /\ call.pc = "idle"
        /\ index >= size
        /\ next' = [a \in DOMAIN next \cup new |->
                       IF a = index + 1 THEN NULL
                       ELSE IF a \in new THEN a + 1
                       ELSE IF a = tail THEN size + 1 ELSE next[a]]
        /\ prev' = [a \in DOMAIN prev \cup new |->
                       IF a = size + 1 THEN tail
                       ELSE IF a \in new THEN a - 1 ELSE prev[a]]
        /\ latest' = IF size = 0 THEN 1 ELSE latest
        /\ latest_index' = IF size = 0 THEN 0 ELSE latest_index
        /\ size' = index + 1
        /\ endFlag' = index + 1
        /\ call' = Call("returned", index, index + 1, index)

(* The caller is done with the reference.                                    *)
Use ==
    /\ call.pc = "returned"
    /\ call' = [call EXCEPT !.pc = "idle"]
    /\ UNCHANGED <<size, next, prev, latest, latest_index, endFlag>>

(* The destructor: size + 1 nodes are deleted, from the base on.             *)
Destroy ==
    /\ call.pc = "idle"
    /\ call' = Call("delete", 0, base, 0)
    /\ UNCHANGED <<size, next, prev, latest, latest_index, endFlag>>

DeleteNode ==
    /\ call.pc = "delete"
    /\ call' = [call EXCEPT !.temp = next[call.temp], !.i = @ + 1,
                            !.pc = IF call.i < size THEN "delete" ELSE "gone"]
    /\ UNCHANGED <<size, next, prev, latest, latest_index, endFlag>>

ArrayNext ==
    \/ \E index \in 0 .. MaxIndex : Find(index) \/ Grow(index)
    \/ Forward \/ Backward \/ Arrive \/ Use
    \/ Destroy \/ DeleteNode

ArraySpec == ArrayInit /\ [][ArrayNext]_arrayVars

(***************************************************************************)
(* Properties.                                                             *)
(***************************************************************************)
ArrayTypeOK ==
    /\ size \in 0 .. MaxIndex + 1
    /\ next \in [0 .. size -> Links]
    /\ prev \in [0 .. size -> Links]
    /\ latest \in Links
    /\ latest_index \in 0 .. MaxIndex
    /\ endFlag \in Links
    /\ call \in [pc : {"idle", "walk", "returned", "delete", "gone"},
                 index : 0 .. MaxIndex, temp : Links, i : 0 .. MaxIndex + 2]

(* "As if it is a simple array": a reference to an index is the node that    *)
(* was appended for it, whatever was asked for before and wherever the walk  *)
(* began, and when the array is deleted no node of the list is left over.    *)
AsIfSimpleArray ==
    /\ call.pc = "returned" => call.temp = call.index + 1
    /\ call.pc = "gone" => call.temp = NULL
=============================================================================
