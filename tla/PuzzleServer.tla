---------------------------- MODULE PuzzleServer ----------------------------
(***************************************************************************)
(* The whole server: the accept loop of main (server.cpp) feeding the      *)
(* session threads.  main keeps one array of thread ids, and one variable  *)
(* new_socket whose address every thread is given as its argument.  A      *)
(* thread is a slot of that array; it is joined before the slot is reused. *)
(***************************************************************************)
EXTENDS Session

CONSTANTS BACKLOG,      (* connections the kernel holds for accept()         *)
          Limits,       (* descriptors a process may open for clients        *)
          MAX_GIVEN,    (* model bound: puzzles one thread sends             *)
          MAX_QUEUED,   (* model bound: units waiting in one direction       *)
          PromptStart   (* TRUE: a new thread always reads its argument      *)
                        (* before main gets back to accept()                 *)

(* Slots are numbered as tid[] is, from 0: numThreads of them.               *)
numThreads == Cardinality(Threads)

ASSUME ServerAssumption ==
    /\ BACKLOG \in Nat \ {0}
    /\ Limits \subseteq Nat
    /\ MAX_GIVEN \in Nat /\ MAX_QUEUED \in Nat
    /\ PromptStart \in BOOLEAN
    /\ numThreads \in Nat \ {0}
    /\ Threads = 0 .. (numThreads - 1)

VARIABLES
    mainPc,      (* "accept", "create" a thread, or "join" the batch         *)
    newSocket,   (* new_socket                                               *)
    slot,        (* i: slots used in this batch                              *)
    backlog,     (* clients connected and not yet accepted                   *)
    limit,       (* the descriptors this process may open                    *)
    opened,      (* descriptors accept() returned; none is ever closed       *)
    paid         (* history: clients a correct answer was accepted from      *)

loopVars == <<mainPc, newSocket, slot, backlog, limit, opened>>
serverVars == <<vars, loopVars, paid>>

ServerInit ==
    /\ process = "up"
    /\ fd = [t \in Threads |-> NoSocket]
    /\ spc = [t \in Threads |-> "done"]
    /\ issued = [t \in Threads |-> FALSE]
    /\ authenticated = [t \in Threads |-> FALSE]
    /\ retry = [t \in Threads |-> 0]
    /\ sHasData = [t \in Threads |-> FALSE]
    /\ sDataBuf = [t \in Threads |-> Unparsable]
    /\ cpc = [c \in Clients |-> "start"]
    /\ cHasData = [c \in Clients |-> FALSE]
    /\ cDataBuf = [c \in Clients |-> Unparsable]
    /\ toServer = [c \in Clients |-> <<>>]
    /\ toClient = [c \in Clients |-> <<>>]
    /\ bucket = {}
    /\ given = [t \in Threads |-> <<>>]
    /\ verdicts = [t \in Threads |-> <<>>]
    /\ mainPc = "accept"
    /\ newSocket = NoSocket
    /\ slot = 0
    /\ backlog = <<>>
    /\ limit \in Limits
    /\ opened = 0
    /\ paid = {}

AcceptedAlways(c) == CHOOSE d \in Clients : TRUE    (* mutation: "= accept() < 0" *)
Accepted(c) == c

Accept ==
    /\ process = "up"
    /\ mainPc = "accept"
    /\ PromptStart => \A t \in Threads : spc[t] # "done" => fd[t] # NoSocket
    /\ backlog # <<>>
    /\ opened < limit
    /\ newSocket' = Accepted(Head(backlog))
    /\ backlog' = Tail(backlog)
    /\ opened' = opened + 1
    /\ mainPc' = "create"
    /\ UNCHANGED <<vars, slot, limit, paid>>

(* accept() fails for want of a descriptor, and main calls exit().           *)
AcceptFails ==
    /\ process = "up"
    /\ mainPc = "accept"
    /\ backlog # <<>>
    /\ opened = limit
    /\ process' = "dead"
    /\ UNCHANGED <<fd, threadVars, clientVars, netVars, bookVars, loopVars, paid>>

(* Fresh locals; the thread has the address of new_socket, not its value.    *)
CreateThread ==
    /\ process = "up"
    /\ mainPc = "create"
    /\ fd' = [fd EXCEPT ![slot] = NoSocket]
    /\ spc' = [spc EXCEPT ![slot] = "recv"]
    /\ issued' = [issued EXCEPT ![slot] = FALSE]
    /\ authenticated' = [authenticated EXCEPT ![slot] = FALSE]
    /\ retry' = [retry EXCEPT ![slot] = 0]
    /\ sHasData' = [sHasData EXCEPT ![slot] = FALSE]
    /\ sDataBuf' = [sDataBuf EXCEPT ![slot] = Unparsable]
    /\ given' = [given EXCEPT ![slot] = <<>>]
    /\ verdicts' = [verdicts EXCEPT ![slot] = <<>>]
    /\ slot' = slot + 1
    /\ mainPc' = IF slot' >= numThreads THEN "join" ELSE "accept"
    /\ UNCHANGED <<process, clientVars, netVars, bucket, newSocket, backlog, limit, opened, paid>>

(* The thread reads new_socket through that address when it gets to run.     *)
ThreadStarts(t) ==
    /\ process = "up"
    /\ spc[t] # "done"
    /\ fd[t] = NoSocket
    /\ fd' = [fd EXCEPT ![t] = newSocket]
    /\ UNCHANGED <<process, threadVars, clientVars, netVars, bookVars, loopVars, paid>>

SlotKept == slot    (* mutation: i is not reset after the joins *)
SlotReset == 0

(* pthread_join on every slot, one after the other.                          *)
JoinBatch ==
    /\ process = "up"
    /\ mainPc = "join"
    /\ \A t \in Threads : spc[t] = "done"
    /\ slot' = SlotReset
    /\ mainPc' = "accept"
    /\ UNCHANGED <<vars, newSocket, backlog, limit, opened, paid>>

MainStep == Accept \/ AcceptFails \/ CreateThread \/ JoinBatch

JustPaid(t) ==
    LET n == Len(verdicts'[t])
    IN n > Len(verdicts[t]) /\ verdicts'[t][n].ok /\ verdicts'[t][n].answer \in Puzzles

ThreadStep(t) ==
    \/ ThreadStarts(t)
    \/ /\ ServerStep(t)
       /\ Len(given'[t]) <= MAX_GIVEN
       /\ \A c \in Clients : Len(toClient'[c]) <= MAX_QUEUED
       /\ paid' = IF JustPaid(t) THEN paid \cup {fd[t]} ELSE paid
       /\ UNCHANGED loopVars

(* connect() returns once the kernel has queued the connection.              *)
ConnectQueued(c) ==
    /\ Len(backlog) < BACKLOG
    /\ Connect(c)
    /\ backlog' = Append(backlog, c)
    /\ UNCHANGED <<mainPc, newSocket, slot, limit, opened, paid>>

PeerStep(c) ==
    \/ ConnectQueued(c)
    \/ /\ cpc[c] # "start" \/ process # "up"
       /\ ClientStep(c)
       /\ Len(toServer'[c]) <= MAX_QUEUED
       /\ UNCHANGED <<loopVars, paid>>

ServerNext ==
    \/ MainStep
    \/ \E t \in Threads : ThreadStep(t)
    \/ \E c \in Clients : PeerStep(c)

ServerSpec == ServerInit /\ [][ServerNext]_serverVars

(* main and every thread are scheduled; a client may take forever.           *)
ServerFairness == /\ WF_serverVars(MainStep)
                  /\ \A t \in Threads : WF_serverVars(ThreadStep(t))
ServerFairSpec == ServerSpec /\ ServerFairness

(* ... or every client runs as well.                                         *)
FullFairSpec == ServerFairSpec /\ \A c \in Clients : WF_serverVars(PeerStep(c))

-----------------------------------------------------------------------------
(* Live threads work on different connections.                               *)
OwnSocket ==
    \A s, t \in Threads :
        (spc[s] # "done" /\ spc[t] # "done" /\ fd[s] = fd[t] /\ fd[s] # NoSocket) => s = t

(* The resource goes only to a client a correct answer was accepted from,    *)
(* even when threads mix up their connections.                               *)
ServedAfterPaid == \A c \in Clients : cpc[c] = "served" => c \in paid

(* With bytes arriving send by send and no client killed, the server dies of *)
(* nothing but running out of descriptors, which it never gives back.        *)
DeathIsExhaustion == process = "dead" => opened = limit
=============================================================================
