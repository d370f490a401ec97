-------------------------- MODULE PuzzleServerProofs --------------------------
(***************************************************************************)
(* PuzzleServer for every number of clients, threads and descriptors and   *)
(* with main's new_socket read late or early: the resource goes to nobody  *)
(* a correct answer was not accepted from, although threads may end up on  *)
(* one connection and take each other's messages.  With new_socket read    *)
(* early, threads keep to their own connections, and the server dies of    *)
(* nothing but running out of descriptors.                                 *)
(*                                                                         *)
(* What a thread knows of its client it knows of the descriptor it works   *)
(* on: while a thread has none it has not authenticated anybody and reads  *)
(* nothing, and once it has one it keeps it until its slot is used again.  *)
(***************************************************************************)
EXTENDS PuzzleServer, SessionProofs

PaidServer ==
    /\ TypeOK
    /\ backlog \in Seq(Clients)
    /\ newSocket \in Clients \cup {NoSocket}
    /\ \A t \in Threads : authenticated[t] => fd[t] \in paid
    /\ \A t \in Threads : fd[t] = NoSocket => ~ authenticated[t] /\ spc[t] \in {"recv", "done"}
    /\ \A c \in Clients : OnTheWay(c) => c \in paid
    /\ ServedAfterPaid

LEMMA PaidServerInit == ServerInit => PaidServer
<1> SUFFICES ASSUME ServerInit PROVE PaidServer
  OBVIOUS
<1>1. TypeOK
  BY ParameterAssumption DEF ServerInit, TypeOK
<1> QED
  BY <1>1 DEF ServerInit, PaidServer, OnTheWay, ServedAfterPaid

-----------------------------------------------------------------------------
(* The steps of a thread.                                                    *)

(* A thread that does anything has a connection, and leaves the others alone. *)
LEMMA StepIsOwn ==
    ASSUME PaidServer, NEW t \in Threads, ServerStep(t)
    PROVE  /\ fd[t] \in Clients
           /\ \A s \in Threads \ {t} : spc'[s] = spc[s] /\ authenticated'[s] = authenticated[s]
<1>1. /\ spc \in [Threads -> {"recv", "recvData", "judge", "done"}]
      /\ authenticated \in [Threads -> BOOLEAN]
      /\ fd \in [Threads -> Clients \cup {NoSocket}]
  BY DEF PaidServer, TypeOK
<1>2. fd[t] # NoSocket
  <2> SUFFICES ASSUME fd[t] = NoSocket PROVE FALSE
    OBVIOUS
  <2>1. spc[t] # "judge"
    BY DEF PaidServer
  <2> QED
    BY <2>1 DEF ServerStep, AcceptAnswer, AskAgain, GiveUp, Judges, FailToParse, LosePeer
<1>3. \/ UNCHANGED <<spc, authenticated>>
      \/ \E x : spc' = [spc EXCEPT ![t] = x] /\ authenticated' = authenticated
      \/ \E x : spc' = [spc EXCEPT ![t] = x] /\ authenticated' = [authenticated EXCEPT ![t] = TRUE]
  BY DEF ServerStep, RejectBytes, AnswerHello, IssuePuzzle, TakeSolution, RefuseSolution,
         ReadSolutionData, SendResource, HelloAgain, CloseThread, IgnoreText, AcceptAnswer,
         AskAgain, GiveUp, FailToParse, LosePeer, threadVars
<1> QED
  BY <1>1, <1>2, <1>3

(* A thread authenticates its client only as it accepts an answer.           *)
LEMMA AuthenticatesThePaid ==
    ASSUME TypeOK, NEW t \in Threads, ServerStep(t), authenticated'[t]
    PROVE  authenticated[t] \/ JustPaid(t)
<1>1. ASSUME NEW d \in Answers, AcceptAnswer(t, d) PROVE JustPaid(t)
  <2> DEFINE v == [answer |-> d, ok |-> TRUE]
  <2>1. Judges(t, d, TRUE)
    BY <1>1 DEF AcceptAnswer
  <2>2. d \in Puzzles
    BY <2>1 DEF Judges, Valid, TypeOK, Answers
  <2>3. /\ verdicts[t] \in Seq([answer : Answers, ok : BOOLEAN])
        /\ verdicts'[t] = Append(verdicts[t], v)
    BY <2>1 DEF TypeOK, Judges
  <2>4. Len(Append(verdicts[t], v)) = Len(verdicts[t]) + 1
        /\ Append(verdicts[t], v)[Len(verdicts[t]) + 1] = v /\ Len(verdicts[t]) \in Nat
    BY <2>3, AppendProperties, LenProperties
  <2> QED
    BY <2>2, <2>3, <2>4 DEF JustPaid
<1>2. (\E d \in Answers : AcceptAnswer(t, d)) \/ authenticated' = authenticated
  BY DEF ServerStep, RejectBytes, AnswerHello, IssuePuzzle, TakeSolution, RefuseSolution,
         ReadSolutionData, SendResource, HelloAgain, CloseThread, IgnoreText,
         AskAgain, GiveUp, FailToParse, LosePeer, threadVars
<1> QED
  BY <1>1, <1>2

LEMMA ThreadStepKeeps ==
    ASSUME PaidServer, NEW t \in Threads, ThreadStep(t)
    PROVE  PaidServer'
<1>1. CASE ThreadStarts(t)
  <2>1. /\ fd[t] = NoSocket /\ fd' = [fd EXCEPT ![t] = newSocket]
        /\ UNCHANGED <<process, threadVars, clientVars, netVars, bookVars, loopVars, paid>>
    BY <1>1 DEF ThreadStarts
  <2>2. TypeOK'
    BY <2>1 DEF PaidServer, TypeOK, threadVars, clientVars, netVars, bookVars
  <2>3. UNCHANGED <<spc, authenticated, cpc, toClient, backlog, newSocket, paid>>
    BY <2>1 DEF threadVars, clientVars, netVars, loopVars
  <2>4. \A s \in Threads : /\ authenticated[s] => fd'[s] \in paid
                           /\ fd'[s] = NoSocket => ~ authenticated[s] /\ spc[s] \in {"recv", "done"}
    BY <2>1 DEF PaidServer, TypeOK
  <2> QED
    BY <2>2, <2>3, <2>4 DEF PaidServer, OnTheWay, ServedAfterPaid
<1>2. CASE ServerStep(t) /\ UNCHANGED loopVars
           /\ paid' = IF JustPaid(t) THEN paid \cup {fd[t]} ELSE paid
  <2>1. TypeOK /\ TypeOK'
    BY <1>2, ServerStepTypeOK DEF PaidServer
  <2>2. fd' = fd /\ cpc' = cpc /\ UNCHANGED <<backlog, newSocket>>
    BY <1>2, <2>1, ServerStepPaid DEF loopVars
  <2>3. /\ fd[t] \in Clients
        /\ \A s \in Threads \ {t} : spc'[s] = spc[s] /\ authenticated'[s] = authenticated[s]
    BY <1>2, StepIsOwn
  <2>4. \A s \in Threads : authenticated'[s] => fd[s] \in paid'
    BY <1>2, <2>1, <2>3, AuthenticatesThePaid DEF PaidServer
  <2>5. fd[t] # NoSocket
    BY <2>3, ValueAssumption
  <2>6. \A s \in Threads : fd[s] = NoSocket => ~ authenticated'[s] /\ spc'[s] \in {"recv", "done"}
    BY <2>3, <2>5 DEF PaidServer
  <2>7. \A c \in Clients : OnTheWay(c)' => c \in paid'
    <3> SUFFICES ASSUME NEW c \in Clients, OnTheWay(c)' PROVE c \in paid'
      OBVIOUS
    <3>1. OnTheWay(c) \/ (fd[t] = c /\ authenticated[t])
      BY <1>2, <2>1, ServerStepOnTheWay
    <3> QED
      BY <1>2, <3>1 DEF PaidServer
  <2>8. ServedAfterPaid'
    BY <1>2, <2>2 DEF PaidServer, ServedAfterPaid
  <2> QED
    BY <2>1, <2>2, <2>4, <2>6, <2>7, <2>8 DEF PaidServer
<1> QED
  BY <1>1, <1>2 DEF ThreadStep

-----------------------------------------------------------------------------
(* The steps of a client and of main.                                        *)
LEMMA PeerStepKeeps ==
    ASSUME PaidServer, NEW c \in Clients, PeerStep(c)
    PROVE  PaidServer'
<1>1. ClientStep(c) /\ paid' = paid /\ newSocket' = newSocket
  BY DEF PeerStep, ConnectQueued, ClientStep, loopVars
<1>2. TypeOK /\ TypeOK'
  BY <1>1, ClientStepTypeOK DEF PaidServer
<1>3. /\ UNCHANGED <<fd, authenticated, verdicts>>
      /\ \A b \in Clients : OnTheWay(b)' => OnTheWay(b)
      /\ \A b \in Clients : cpc'[b] = "served" => cpc[b] = "served" \/ OnTheWay(b)
  BY <1>1, <1>2, ClientStepPaid
<1>4. spc' = spc
  BY <1>1 DEF ClientStep, Connect, ConnectionFailed, ClientAnswers, TakeResource, TakePuzzle,
              ReadPuzzleData, TakeEnd, ClientIgnores, SendSolution, ClientFailsToParse,
              LoseServer, ClientSends, threadVars
<1>5. backlog' \in Seq(Clients)
  <2>1. Append(backlog, c) \in Seq(Clients)
    BY AppendProperties DEF PaidServer
  <2> QED
    BY <2>1 DEF PeerStep, ConnectQueued, loopVars, PaidServer
<1> QED
  BY <1>1, <1>2, <1>3, <1>4, <1>5 DEF PaidServer, ServedAfterPaid

LEMMA MainStepKeeps ==
    ASSUME PaidServer, MainStep
    PROVE  PaidServer'
<1> USE DEF ServedAfterPaid, OnTheWay
<1>1. CASE Accept
  <2>1. /\ UNCHANGED <<vars, paid>> /\ backlog # <<>>
        /\ newSocket' = Head(backlog) /\ backlog' = Tail(backlog)
    BY <1>1 DEF Accept, Accepted
  <2>2. newSocket' \in Clients /\ backlog' \in Seq(Clients)
    BY <2>1, HeadTailProperties DEF PaidServer
  <2>3. TypeOK' /\ UNCHANGED <<fd, spc, authenticated, cpc, toClient, paid>>
    BY <2>1 DEF PaidServer, TypeOK, vars, socketVars, threadVars, clientVars, netVars, bookVars
  <2> QED
    BY <2>2, <2>3 DEF PaidServer
<1>2. CASE AcceptFails
  BY <1>2 DEF AcceptFails, PaidServer, TypeOK, threadVars, clientVars, netVars, bookVars, loopVars
<1>3. CASE CreateThread
  <2>1. TypeOK'
    <3>1. <<>> \in Seq(Puzzles) /\ <<>> \in Seq([answer : Answers, ok : BOOLEAN])
          /\ 0 \in 0 .. MAX_RETRY
      BY ParameterAssumption
    <3> QED
      BY <1>3, <3>1 DEF CreateThread, PaidServer, TypeOK, clientVars, netVars
  <2>2. /\ UNCHANGED <<cpc, toClient, backlog, newSocket, paid>>
        /\ fd' = [fd EXCEPT ![slot] = NoSocket]
        /\ spc' = [spc EXCEPT ![slot] = "recv"]
        /\ authenticated' = [authenticated EXCEPT ![slot] = FALSE]
    BY <1>3 DEF CreateThread, clientVars, netVars
  <2>3. \A t \in Threads :
            \/ t = slot /\ fd'[t] = NoSocket /\ spc'[t] = "recv" /\ ~ authenticated'[t]
            \/ fd'[t] = fd[t] /\ spc'[t] = spc[t] /\ authenticated'[t] = authenticated[t]
    BY <2>2 DEF PaidServer, TypeOK
  <2>4. \A t \in Threads :
            /\ authenticated'[t] => fd'[t] \in paid
            /\ fd'[t] = NoSocket => ~ authenticated'[t] /\ spc'[t] \in {"recv", "done"}
    <3> TAKE t \in Threads
    <3>1. CASE t = slot /\ fd'[t] = NoSocket /\ spc'[t] = "recv" /\ ~ authenticated'[t]
      BY <3>1
    <3>2. CASE fd'[t] = fd[t] /\ spc'[t] = spc[t] /\ authenticated'[t] = authenticated[t]
      BY <3>2 DEF PaidServer
    <3> QED
      BY <2>3, <3>1, <3>2
  <2>5. (\A c \in Clients : OnTheWay(c)' => c \in paid) /\ ServedAfterPaid'
    BY <2>2 DEF PaidServer
  <2> QED
    BY <2>1, <2>2, <2>4, <2>5 DEF PaidServer
<1>4. CASE JoinBatch
  BY <1>4 DEF JoinBatch, PaidServer, TypeOK, vars, socketVars, threadVars, clientVars, netVars,
              bookVars
<1> QED
  BY <1>1, <1>2, <1>3, <1>4 DEF MainStep

(* The resource goes only to a client a correct answer was accepted from,    *)
(* whichever thread reads whose connection.                                  *)
THEOREM ServerServesThePaid == ServerSpec => []ServedAfterPaid
<1>1. PaidServer /\ [ServerNext]_serverVars => PaidServer'
  <2> SUFFICES ASSUME PaidServer, [ServerNext]_serverVars PROVE PaidServer'
    OBVIOUS
  <2>1. CASE UNCHANGED serverVars
    BY <2>1 DEF serverVars, loopVars, vars, socketVars, threadVars, clientVars, netVars, bookVars,
                PaidServer, TypeOK, OnTheWay, ServedAfterPaid
  <2> QED
    BY <2>1, MainStepKeeps, ThreadStepKeeps, PeerStepKeeps DEF ServerNext
<1>2. PaidServer => ServedAfterPaid
  BY DEF PaidServer
<1> QED
  BY <1>1, <1>2, PaidServerInit, PTL DEF ServerSpec

-----------------------------------------------------------------------------
(* When every new thread reads new_socket before main gets back to accept(), *)
(* live threads work on different connections.  A connection is in one place *)
(* at a time: in the backlog, in new_socket for a thread that has yet to     *)
(* read it, or in one slot; and a client connects only once.                 *)

InBacklog(c) == \E i \in DOMAIN backlog : backlog[i] = c

BacklogDistinct == \A i, j \in DOMAIN backlog : backlog[i] = backlog[j] => i = j

(* No live thread but t has still to read new_socket, and none has read it.  *)
SocketIsFor(t) ==
    /\ newSocket \in Clients
    /\ \A s \in Threads \ {t} : /\ fd[s] # newSocket
                                /\ spc[s] # "done" => fd[s] # NoSocket

Taken(c) ==
    \/ InBacklog(c)
    \/ newSocket = c
    \/ \E t \in Threads : fd[t] = c

OnePlace ==
    /\ PaidServer
    /\ BacklogDistinct
    /\ \A c \in Clients : Taken(c) => cpc[c] # "start"
    /\ \A c \in Clients : InBacklog(c) => newSocket # c /\ \A t \in Threads : fd[t] # c
    /\ \A s, t \in Threads : fd[s] = fd[t] /\ fd[s] # NoSocket => s = t
    /\ \A t \in Threads : spc[t] # "done" /\ fd[t] = NoSocket => SocketIsFor(t)
    /\ mainPc = "create" =>
           /\ newSocket \in Clients
           /\ \A t \in Threads : fd[t] # newSocket /\ (spc[t] # "done" => fd[t] # NoSocket)

LEMMA OnePlaceInit == ServerInit => OnePlace
<1> SUFFICES ASSUME ServerInit PROVE OnePlace
  OBVIOUS
<1>1. PaidServer
  BY PaidServerInit
<1>2. \A c \in Clients : ~ Taken(c) /\ ~ InBacklog(c)
  BY ValueAssumption DEF ServerInit, Taken, InBacklog
<1> QED
  BY <1>1, <1>2 DEF ServerInit, OnePlace, BacklogDistinct

LEMMA ThreadKeepsPlace ==
    ASSUME OnePlace, NEW t \in Threads, ThreadStep(t)
    PROVE  OnePlace'
<1>1. PaidServer /\ PaidServer'
  BY ThreadStepKeeps DEF OnePlace
<1>2. fd \in [Threads -> Clients \cup {NoSocket}]
  BY <1>1 DEF PaidServer, TypeOK
<1>3. CASE ThreadStarts(t)
  <2>1. /\ spc[t] # "done" /\ fd[t] = NoSocket /\ fd' = [fd EXCEPT ![t] = newSocket]
        /\ UNCHANGED <<spc, cpc, newSocket, backlog, mainPc>>
    BY <1>3 DEF ThreadStarts, threadVars, clientVars, loopVars
  <2>2. SocketIsFor(t) /\ mainPc # "create"
    BY <2>1 DEF OnePlace
  <2>3. newSocket \in Clients /\ newSocket # NoSocket
    BY <2>2, ValueAssumption DEF SocketIsFor
  <2>4. /\ fd'[t] = newSocket /\ \A s \in Threads \ {t} : fd'[s] = fd[s]
        /\ \A s \in Threads \ {t} : fd[s] # newSocket
    BY <1>2, <2>1, <2>2 DEF SocketIsFor
  <2>5. \A s, u \in Threads : fd'[s] = fd'[u] /\ fd'[s] # NoSocket => s = u
    BY <2>4 DEF OnePlace
  <2>6. \A s \in Threads : ~ (spc'[s] # "done" /\ fd'[s] = NoSocket)
    BY <2>1, <2>2, <2>3, <2>4 DEF SocketIsFor
  <2>7. \A c \in Clients : /\ Taken(c)' => Taken(c)
                           /\ InBacklog(c)' <=> InBacklog(c)
    BY <2>1, <2>4 DEF Taken, InBacklog
  <2>8. \A c \in Clients : InBacklog(c)' => newSocket' # c /\ \A s \in Threads : fd'[s] # c
    BY <2>1, <2>4, <2>7 DEF OnePlace
  <2>9. BacklogDistinct'
    BY <2>1 DEF OnePlace, BacklogDistinct
  <2>10. \A c \in Clients : Taken(c)' => cpc'[c] # "start"
    BY <2>1, <2>7 DEF OnePlace
  <2> QED
    BY <1>1, <2>1, <2>2, <2>5, <2>6, <2>8, <2>9, <2>10 DEF OnePlace
<1>4. CASE ServerStep(t) /\ UNCHANGED loopVars
  <2>1. UNCHANGED <<fd, cpc, newSocket, backlog, mainPc>>
    BY <1>1, <1>4, ServerStepPaid DEF loopVars, PaidServer
  <2>2. fd[t] \in Clients /\ \A s \in Threads \ {t} : spc'[s] = spc[s]
    BY <1>1, <1>4, StepIsOwn
  <2>3. \A s \in Threads : spc'[s] # "done" /\ fd[s] = NoSocket => spc[s] # "done"
    BY <2>2, ValueAssumption
  <2>4. \A s \in Threads : SocketIsFor(s) => SocketIsFor(s)'
    BY <2>1, <2>3 DEF SocketIsFor
  <2>5. \A c \in Clients : /\ Taken(c)' <=> Taken(c)
                           /\ InBacklog(c)' <=> InBacklog(c)
    BY <2>1 DEF Taken, InBacklog
  <2> QED
    BY <1>1, <2>1, <2>3, <2>4, <2>5 DEF OnePlace, BacklogDistinct
<1> QED
  BY <1>3, <1>4 DEF ThreadStep

(* A client connects once, and only then is it queued.                       *)
LEMMA PeerKeepsPlace ==
    ASSUME OnePlace, NEW c \in Clients, PeerStep(c)
    PROVE  OnePlace'
<1>1. PaidServer /\ PaidServer' /\ cpc \in [Clients -> {"start", "recv", "recvData", "solve"} \cup Closed]
      /\ backlog \in Seq(Clients)
  BY PeerStepKeeps DEF OnePlace, PaidServer, TypeOK
<1>2. ClientStep(c) /\ UNCHANGED <<newSocket, mainPc>>
  BY DEF PeerStep, ConnectQueued, ClientStep, loopVars
<1>3. UNCHANGED <<fd, spc>>
  BY <1>2 DEF ClientStep, Connect, ConnectionFailed, ClientAnswers, TakeResource, TakePuzzle,
              ReadPuzzleData, TakeEnd, ClientIgnores, SendSolution, ClientFailsToParse,
              LoseServer, ClientSends, threadVars, socketVars
<1>4. \A b \in Clients : cpc'[b] = "start" => cpc[b] = "start"
  BY <1>1, <1>2 DEF ClientStep, Connect, ConnectionFailed, ClientAnswers, TakeResource, TakePuzzle,
              ReadPuzzleData, TakeEnd, ClientIgnores, SendSolution, ClientFailsToParse,
              LoseServer, Closed
<1>5. \A t \in Threads : SocketIsFor(t)' <=> SocketIsFor(t)
  BY <1>2, <1>3 DEF SocketIsFor
<1>6. CASE backlog' = backlog
  <2>1. \A b \in Clients : (Taken(b)' <=> Taken(b)) /\ (InBacklog(b)' <=> InBacklog(b))
    BY <1>2, <1>3, <1>6 DEF Taken, InBacklog
  <2> QED
    BY <1>1, <1>2, <1>3, <1>4, <1>5, <1>6, <2>1 DEF OnePlace, BacklogDistinct
<1>7. CASE ConnectQueued(c)
  <2>1. cpc[c] = "start" /\ cpc'[c] = "recv" /\ backlog' = Append(backlog, c)
    BY <1>1, <1>7 DEF ConnectQueued, Connect
  <2>2. ~ Taken(c)
    BY <2>1 DEF OnePlace
  <2>3. /\ Len(backlog) \in Nat /\ DOMAIN backlog = 1 .. Len(backlog)
        /\ DOMAIN backlog' = 1 .. Len(backlog) + 1
        /\ \A i \in 1 .. Len(backlog) : backlog'[i] = backlog[i]
        /\ backlog'[Len(backlog) + 1] = c
    BY <1>1, <2>1, AppendProperties, LenProperties
  <2>4. \A b \in Clients : InBacklog(b)' => InBacklog(b) \/ b = c
    BY <2>3 DEF InBacklog
  <2>5. BacklogDistinct'
    <3> SUFFICES ASSUME NEW i \in 1 .. Len(backlog) + 1, NEW j \in 1 .. Len(backlog) + 1,
                        backlog'[i] = backlog'[j]
                 PROVE  i = j
      BY <2>3 DEF BacklogDistinct
    <3>1. \A l \in 1 .. Len(backlog) : backlog[l] # c
      BY <2>2, <2>3 DEF Taken, InBacklog
    <3>2. \A l \in 1 .. Len(backlog) + 1 : l \in 1 .. Len(backlog) \/ l = Len(backlog) + 1
      BY <2>3
    <3> QED
      BY <2>3, <3>1, <3>2 DEF OnePlace, BacklogDistinct
  <2>6. \A b \in Clients : Taken(b)' => Taken(b) \/ b = c
    BY <1>2, <1>3, <2>4 DEF Taken
  <2>7. \A b \in Clients : Taken(b)' => cpc'[b] # "start"
    BY <1>4, <2>1, <2>6 DEF OnePlace
  <2>8. \A b \in Clients : InBacklog(b)' => newSocket' # b /\ \A t \in Threads : fd'[t] # b
    BY <1>2, <1>3, <2>2, <2>4 DEF OnePlace, Taken
  <2> QED
    BY <1>1, <1>2, <1>3, <1>5, <2>5, <2>7, <2>8 DEF OnePlace
<1> QED
  BY <1>6, <1>7 DEF PeerStep, loopVars

LEMMA MainKeepsPlace ==
    ASSUME PromptStart, OnePlace, MainStep
    PROVE  OnePlace'
<1>1. /\ PaidServer /\ PaidServer' /\ backlog \in Seq(Clients)
      /\ fd \in [Threads -> Clients \cup {NoSocket}]
      /\ spc \in [Threads -> {"recv", "recvData", "judge", "done"}]
  BY MainStepKeeps DEF OnePlace, PaidServer, TypeOK
<1>2. CASE Accept
  <2>1. /\ UNCHANGED <<fd, spc, cpc>> /\ backlog # <<>>
        /\ newSocket' = backlog[1] /\ backlog' = Tail(backlog)
        /\ \A t \in Threads : spc[t] # "done" => fd[t] # NoSocket
    BY <1>1, <1>2 DEF Accept, Accepted, vars, socketVars, threadVars, clientVars
  <2>2. /\ Len(backlog) \in Nat \ {0} /\ DOMAIN backlog = 1 .. Len(backlog)
        /\ DOMAIN backlog' = 1 .. Len(backlog) - 1
        /\ \A i \in 1 .. Len(backlog) - 1 : backlog'[i] = backlog[i + 1]
    BY <1>1, <2>1, HeadTailProperties, LenProperties
  <2>3. newSocket' \in Clients /\ InBacklog(newSocket')
    BY <1>1, <2>1, <2>2, ElementOfSeq DEF InBacklog
  <2>4. \A i \in DOMAIN backlog' : i + 1 \in DOMAIN backlog /\ backlog'[i] = backlog[i + 1]
                                  /\ i \in Nat \ {0}
    BY <2>2
  <2>5. \A c \in Clients : InBacklog(c)' => InBacklog(c)
    BY <2>4 DEF InBacklog
  <2>6. BacklogDistinct'
    BY <2>4 DEF OnePlace, BacklogDistinct
  <2>7. ~ InBacklog(newSocket)'
    <3> SUFFICES ASSUME NEW i \in DOMAIN backlog', backlog'[i] = newSocket' PROVE FALSE
      BY DEF InBacklog
    <3>1. backlog[i + 1] = backlog[1] /\ i + 1 \in DOMAIN backlog /\ 1 \in DOMAIN backlog
      BY <2>1, <2>2, <2>4
    <3> QED
      BY <2>4, <3>1 DEF OnePlace, BacklogDistinct
  <2>8. \A t \in Threads : fd[t] # newSocket'
    BY <2>3 DEF OnePlace
  <2>9. \A c \in Clients : Taken(c)' => Taken(c)
    BY <2>1, <2>3, <2>5 DEF Taken
  <2>10. \A c \in Clients : InBacklog(c)' => newSocket' # c /\ \A t \in Threads : fd'[t] # c
    BY <2>1, <2>5, <2>7 DEF OnePlace
  <2>11. \A s, t \in Threads : fd'[s] = fd'[t] /\ fd'[s] # NoSocket => s = t
    BY <2>1 DEF OnePlace
  <2> QED
    BY <1>1, <2>1, <2>3, <2>6, <2>8, <2>9, <2>10, <2>11 DEF OnePlace
<1>3. CASE CreateThread
  <2>1. /\ mainPc = "create" /\ mainPc' # "create"
        /\ UNCHANGED <<cpc, backlog, newSocket>>
        /\ fd' = [fd EXCEPT ![slot] = NoSocket]
        /\ spc' = [spc EXCEPT ![slot] = "recv"]
    BY <1>3 DEF CreateThread, clientVars
  <2>2. /\ newSocket \in Clients
        /\ \A t \in Threads : fd[t] # newSocket /\ (spc[t] # "done" => fd[t] # NoSocket)
    BY <2>1 DEF OnePlace
  <2>3. \A t \in Threads : IF t = slot THEN fd'[t] = NoSocket
                           ELSE fd'[t] = fd[t] /\ spc'[t] = spc[t]
    BY <1>1, <2>1
  <2>4. \A t \in Threads : fd'[t] # newSocket
    BY <2>2, <2>3, ValueAssumption
  <2>5. \A t \in Threads : spc'[t] # "done" /\ fd'[t] = NoSocket => t = slot
    BY <2>2, <2>3
  <2>6. \A t \in Threads : spc'[t] # "done" /\ fd'[t] = NoSocket => SocketIsFor(t)'
    BY <2>1, <2>2, <2>4, <2>5 DEF SocketIsFor
  <2>7. \A c \in Clients : (Taken(c)' => Taken(c)) /\ (InBacklog(c)' <=> InBacklog(c))
    BY <2>1, <2>3, ValueAssumption DEF Taken, InBacklog
  <2>8. \A c \in Clients : InBacklog(c)' => newSocket' # c /\ \A t \in Threads : fd'[t] # c
    BY <2>1, <2>3, <2>7, ValueAssumption DEF OnePlace
  <2>9. \A s, t \in Threads : fd'[s] = fd'[t] /\ fd'[s] # NoSocket => s = t
    BY <2>3 DEF OnePlace
  <2> QED
    BY <1>1, <2>1, <2>6, <2>7, <2>8, <2>9 DEF OnePlace, BacklogDistinct
<1>4. CASE AcceptFails \/ JoinBatch
  <2>1. UNCHANGED <<fd, spc, cpc, backlog, newSocket>> /\ (mainPc' = mainPc \/ mainPc' = "accept")
    BY <1>4 DEF AcceptFails, JoinBatch, vars, socketVars, threadVars, clientVars, loopVars
  <2>2. /\ \A c \in Clients : (Taken(c)' <=> Taken(c)) /\ (InBacklog(c)' <=> InBacklog(c))
        /\ \A t \in Threads : SocketIsFor(t)' <=> SocketIsFor(t)
    BY <2>1 DEF Taken, InBacklog, SocketIsFor
  <2> QED
    BY <1>1, <2>1, <2>2 DEF OnePlace, BacklogDistinct
<1> QED
  BY <1>2, <1>3, <1>4 DEF MainStep

(* No two live threads serve one connection, if a thread always reads its    *)
(* argument before the next accept().  Nothing in server.cpp promises that;  *)
(* the run ServerRace is of a server whose threads may read it late.         *)
THEOREM ThreadsHaveOwnSockets == PromptStart => (ServerSpec => []OwnSocket)
<1> SUFFICES ASSUME PromptStart PROVE ServerSpec => []OwnSocket
  OBVIOUS
<1>1. OnePlace /\ [ServerNext]_serverVars => OnePlace'
  <2> SUFFICES ASSUME OnePlace, [ServerNext]_serverVars PROVE OnePlace'
    OBVIOUS
  <2>1. CASE UNCHANGED serverVars
    BY <2>1 DEF serverVars, loopVars, vars, socketVars, threadVars, clientVars, netVars, bookVars,
                OnePlace, PaidServer, TypeOK, OnTheWay, ServedAfterPaid, Taken, InBacklog,
                SocketIsFor, BacklogDistinct
  <2> QED
    BY <2>1, MainKeepsPlace, ThreadKeepsPlace, PeerKeepsPlace DEF ServerNext
<1>2. OnePlace => OwnSocket
  BY DEF OnePlace, OwnSocket
<1> QED
  BY <1>1, <1>2, OnePlaceInit, PTL DEF ServerSpec

-----------------------------------------------------------------------------
(* What the server dies of.  With prompt threads and every send arriving by  *)
(* itself, a thread takes over a connection on which nothing but the first   *)
(* hello has happened, and from then on the session takes its turns as it    *)
(* does by itself (HandshakeProofs).  A client whose slot is used again      *)
(* belongs to no thread any more and cannot hurt one.                        *)

(* A connection a thread will get: queued, accepted, or due to a new thread. *)
Promised(c) ==
    \/ InBacklog(c)
    \/ /\ newSocket = c
       /\ mainPc = "create" \/ \E t \in Threads : spc[t] # "done" /\ fd[t] = NoSocket

Idle(c, pc, up) ==
    /\ cpc[c] = pc /\ ~ cHasData[c] /\ cDataBuf[c] = Unparsable
    /\ toServer[c] = up /\ toClient[c] = <<>>

Fresh(t) ==
    /\ spc[t] = "recv" /\ ~ issued[t] /\ ~ authenticated[t] /\ retry[t] = 0
    /\ sDataBuf[t] = Unparsable /\ given[t] = <<>> /\ verdicts[t] = <<>>

Attended(t) == HasPeer(t) => InTurn(t) /\ CalmClient(fd[t])
Unattended(t) == spc[t] # "done" /\ fd[t] = NoSocket => Fresh(t)

Awaited(c) ==
    /\ cpc[c] = "start" => Idle(c, "start", <<>>)
    /\ Promised(c) => Idle(c, "recv", <<Header("CLIENT_HELLO")>>)

Running ==
    /\ OnePlace /\ process = "up"
    /\ \A t \in Threads : CalmThread(t) /\ Attended(t) /\ Unattended(t)
    /\ \A c \in Clients : Awaited(c)

Exhausted == process = "dead" /\ opened = limit

LEMMA RunningInit == ServerInit => Running
<1> SUFFICES ASSUME ServerInit PROVE Running
  OBVIOUS
<1>1. OnePlace
  BY OnePlaceInit
<1>2. \A c \in Clients : ~ Promised(c)
  BY ValueAssumption DEF ServerInit, Promised, InBacklog
<1>3. \A t \in Threads : ~ HasPeer(t)
  BY ValueAssumption DEF ServerInit, HasPeer
<1> QED
  BY <1>1, <1>2, <1>3 DEF ServerInit, Running, CalmThread, Attended, Unattended, Awaited, Idle

(* Nobody works on a connection that is still to be given out.               *)
LEMMA PromisedIsFree ==
    ASSUME OnePlace, NEW c \in Clients, Promised(c) \/ cpc[c] = "start"
    PROVE  \A t \in Threads : fd[t] # c
<1>1. CASE InBacklog(c)
  BY <1>1 DEF OnePlace
<1>2. CASE newSocket = c /\ mainPc = "create"
  BY <1>2 DEF OnePlace
<1>3. CASE newSocket = c /\ \E t \in Threads : spc[t] # "done" /\ fd[t] = NoSocket
  <2>1. PICK t \in Threads : spc[t] # "done" /\ fd[t] = NoSocket
    BY <1>3
  <2>2. SocketIsFor(t) /\ fd[t] # c
    BY <2>1, ValueAssumption DEF OnePlace
  <2> QED
    BY <1>3, <2>2 DEF SocketIsFor
<1>4. CASE cpc[c] = "start"
  BY <1>4 DEF OnePlace, Taken
<1> QED
  BY <1>1, <1>2, <1>3, <1>4 DEF Promised

(* A step that touches no session leaves each where it is.                   *)
LEMMA SessionsStay ==
    ASSUME Running, UNCHANGED vars, OnePlace', \A c \in Clients : Promised(c)' => Promised(c)
    PROVE  Running'
<1>1. UNCHANGED <<process, fd, spc, issued, authenticated, retry, sHasData, sDataBuf,
                    cpc, cHasData, cDataBuf, toServer, toClient, given, verdicts>>
  BY DEF vars, socketVars, threadVars, clientVars, netVars, bookVars
<1>2. \A t \in Threads : InTurn(t) => InTurn(t)'
  <2>1. \A t \in Threads : View(t)' = View(t)
    BY <1>1 DEF View
  <2> QED
    BY <2>1, UntouchedKeeps
<1>3. \A t \in Threads : CalmThread(t)' /\ Attended(t)' /\ Unattended(t)'
  BY <1>1, <1>2 DEF Running, CalmThread, Attended, HasPeer, CalmClient, Unattended, Fresh
<1>4. \A c \in Clients : Awaited(c)'
  BY <1>1 DEF Running, Awaited, Idle
<1> QED
  BY <1>1, <1>3, <1>4 DEF Running

LEMMA IdleKeepsRunning ==
    ASSUME Running, UNCHANGED <<vars, loopVars, paid>>
    PROVE  Running'
<1>1. OnePlace'
  BY DEF Running, OnePlace, PaidServer, TypeOK, OnTheWay, ServedAfterPaid, Taken, InBacklog,
         SocketIsFor, BacklogDistinct, vars, socketVars, threadVars, clientVars, netVars, bookVars,
         loopVars
<1>2. \A c \in Clients : Promised(c)' => Promised(c)
  BY DEF Promised, InBacklog, vars, socketVars, threadVars, loopVars
<1> QED
  BY <1>1, <1>2, SessionsStay

LEMMA CreateKeepsRunning ==
    ASSUME Running, PromptStart, CreateThread
    PROVE  Running'
<1>1. OnePlace /\ OnePlace' /\ TypeOK
  BY MainKeepsPlace DEF Running, MainStep, OnePlace, PaidServer
<1>2. /\ mainPc = "create" /\ UNCHANGED <<process, cpc, cHasData, cDataBuf, toServer, toClient,
                                         newSocket, backlog>>
  BY DEF CreateThread, clientVars, netVars
<1>3. \A t \in Threads : t # slot =>
          /\ fd'[t] = fd[t] /\ spc'[t] = spc[t] /\ issued'[t] = issued[t]
          /\ authenticated'[t] = authenticated[t] /\ retry'[t] = retry[t]
          /\ sHasData'[t] = sHasData[t] /\ sDataBuf'[t] = sDataBuf[t]
          /\ given'[t] = given[t] /\ verdicts'[t] = verdicts[t]
  BY <1>1 DEF CreateThread, TypeOK
<1>5. ASSUME NEW t \in Threads PROVE CalmThread(t)' /\ Attended(t)' /\ Unattended(t)'
  <2>1. CASE t = slot
    <3>1. fd'[t] = NoSocket /\ ~ sHasData'[t] /\ spc'[t] = "recv"
      BY <2>1, <1>1 DEF CreateThread, TypeOK
    <3>2. Fresh(t)'
      BY <2>1, <1>1 DEF CreateThread, TypeOK, Fresh
    <3> QED
      BY <3>1, <3>2, ValueAssumption DEF CalmThread, Attended, Unattended, HasPeer
  <2>2. CASE t # slot
    <3>1. View(t)' = View(t)
      BY <1>2, <1>3, <2>2 DEF View
    <3>2. InTurn(t) => InTurn(t)'
      BY <3>1, UntouchedKeeps
    <3>3. Attended(t)'
      BY <1>2, <1>3, <2>2, <3>2 DEF Running, Attended, HasPeer, CalmClient
    <3> QED
      BY <1>3, <2>2, <3>3 DEF Running, CalmThread, Unattended, Fresh
  <2> QED
    BY <2>1, <2>2
<1>6. \A c \in Clients : Promised(c)' => Promised(c)
  BY <1>2 DEF Promised, InBacklog
<1>7. \A c \in Clients : Awaited(c)'
  BY <1>2, <1>6 DEF Running, Awaited, Idle
<1> QED
  BY <1>1, <1>2, <1>5, <1>7 DEF Running

LEMMA MainKeepsRunning ==
    ASSUME Running, PromptStart, MainStep
    PROVE  Running' \/ Exhausted'
<1>1. CASE Accept
  <2>1. /\ UNCHANGED vars /\ backlog # <<>>
        /\ newSocket' = Head(backlog) /\ backlog' = Tail(backlog)
    BY <1>1 DEF Accept, Accepted
  <2>2. backlog \in Seq(Clients)
    BY DEF Running, OnePlace, PaidServer
  <2>3. /\ Head(backlog) = backlog[1] /\ 1 \in DOMAIN backlog
        /\ \A i \in DOMAIN backlog' : i + 1 \in DOMAIN backlog /\ backlog'[i] = backlog[i + 1]
    BY <2>1, <2>2, HeadTailProperties, LenProperties
  <2>4. \A c \in Clients : Promised(c)' => Promised(c)
    BY <2>1, <2>3 DEF Promised, InBacklog
  <2> QED
    BY <1>1, <2>1, <2>4, MainKeepsPlace, SessionsStay DEF MainStep, Running
<1>2. CASE AcceptFails
  BY <1>2 DEF AcceptFails, Exhausted, loopVars
<1>3. CASE CreateThread
  BY <1>3, CreateKeepsRunning
<1>4. CASE JoinBatch
  <2>1. UNCHANGED <<vars, newSocket, backlog>> /\ mainPc' = "accept"
    BY <1>4 DEF JoinBatch
  <2>2. \A c \in Clients : Promised(c)' => Promised(c)
    BY <2>1 DEF Promised, InBacklog, vars, socketVars, threadVars
  <2> QED
    BY <1>4, <2>1, <2>2, MainKeepsPlace, SessionsStay DEF MainStep, Running
<1> QED
  BY <1>1, <1>2, <1>3, <1>4 DEF MainStep

(* A thread takes over a connection with the hello waiting on it.            *)
LEMMA StartKeepsRunning ==
    ASSUME Running, NEW t \in Threads, ThreadStarts(t)
    PROVE  Running'
<1> DEFINE c == newSocket
<1>1. OnePlace /\ OnePlace' /\ TypeOK
  BY ThreadKeepsPlace DEF Running, ThreadStep, OnePlace, PaidServer
<1>2. /\ spc[t] # "done" /\ fd[t] = NoSocket /\ fd' = [fd EXCEPT ![t] = c]
      /\ UNCHANGED <<process, spc, issued, authenticated, retry, sHasData, sDataBuf, cpc, cHasData,
                     cDataBuf, toServer, toClient, given, verdicts, newSocket, backlog, mainPc>>
  BY DEF ThreadStarts, threadVars, clientVars, netVars, bookVars, loopVars
<1>3. SocketIsFor(t) /\ c \in Clients /\ Promised(c) /\ mainPc # "create"
  BY <1>1, <1>2 DEF OnePlace, SocketIsFor, Promised
<1>4. fd'[t] = c /\ \A s \in Threads \ {t} : fd'[s] = fd[s]
  BY <1>1, <1>2 DEF TypeOK
<1>5. Fresh(t) /\ Idle(c, "recv", <<Header("CLIENT_HELLO")>>)
  BY <1>2, <1>3 DEF Running, Unattended, Awaited
<1>6. InTurn(t)'
  <2>1. NotAsked(t)' /\ Buffers(t)'
    BY <1>2, <1>4, <1>5 DEF Fresh, Idle, NotAsked, Here, Peer, Streams, Buffers
  <2>2. Books(t)'
    BY <1>2, <1>5 DEF Fresh, Books
  <2> QED
    BY <2>1, <2>2 DEF InTurn
<1>7. CalmClient(fd[t])'
  BY <1>2, <1>4, <1>5 DEF CalmClient, Idle, Lost
<1>8. ASSUME NEW s \in Threads PROVE CalmThread(s)' /\ Attended(s)' /\ Unattended(s)'
  <2>1. CalmThread(s)'
    BY <1>2 DEF Running, CalmThread
  <2>2. CASE s = t
    BY <1>3, <1>4, <1>6, <1>7, <2>1, <2>2, ValueAssumption DEF Attended, Unattended
  <2>3. CASE s # t
    <3>1. View(s)' = View(s)
      BY <1>2, <1>4, <2>3 DEF View
    <3>2. InTurn(s) => InTurn(s)'
      BY <3>1, UntouchedKeeps
    <3> QED
      BY <1>2, <1>4, <2>1, <2>3, <3>2
         DEF Running, Attended, HasPeer, CalmClient, Unattended, Fresh
  <2> QED
    BY <2>2, <2>3
<1>9. \A b \in Clients : Promised(b)' => Promised(b)
  BY <1>2, <1>3, <1>4 DEF Promised, InBacklog, SocketIsFor
<1>10. \A b \in Clients : Awaited(b)'
  BY <1>2, <1>9 DEF Running, Awaited, Idle
<1> QED
  BY <1>1, <1>2, <1>8, <1>10 DEF Running

LEMMA ServerStepKeepsRunning ==
    ASSUME Running, Arrival = "single", NEW t \in Threads, ServerStep(t), ThreadStep(t),
           UNCHANGED loopVars
    PROVE  Running'
<1>1. OnePlace /\ OnePlace' /\ TypeOK /\ PaidServer
  BY ThreadKeepsPlace DEF Running, OnePlace, PaidServer
<1>2. HasPeer(t) /\ CalmThread(t) /\ InTurn(t) /\ CalmClient(fd[t])
  BY <1>1, StepIsOwn DEF Running, Attended, HasPeer
<1>3. /\ process' = process /\ Elsewhere(t)
      /\ \A s \in Threads : CalmThread(s) => CalmThread(s)'
  BY <1>1, <1>2, CalmServer
<1>4. /\ InTurn(t)' /\ fd' = fd
      /\ \A s \in Threads \ {t} : HasPeer(s) /\ fd[s] # fd[t] /\ InTurn(s) => InTurn(s)'
  BY <1>1, <1>2, ServerTurn
<1>5. fd[t] \in Clients /\ fd[t] # NoSocket
  BY <1>2, ValueAssumption DEF HasPeer
<1>6. UNCHANGED <<cpc, cHasData, cDataBuf, newSocket, backlog, mainPc>>
  BY <1>3 DEF Elsewhere, clientVars, loopVars
<1>7. ASSUME NEW s \in Threads PROVE Attended(s)' /\ Unattended(s)'
  <2>1. CASE s = t
    BY <1>2, <1>4, <1>5, <1>6, <2>1 DEF Attended, Unattended, CalmClient
  <2>2. CASE s # t
    <3>1. fd[s] \in Clients => fd[s] # fd[t]
      BY <1>1, <1>5, <2>2 DEF OnePlace
    <3>2. Attended(s)'
      BY <1>4, <1>6, <2>2, <3>1 DEF Running, Attended, HasPeer, CalmClient
    <3>3. Unattended(s)'
      BY <1>3, <1>4, <2>2 DEF Running, Unattended, Fresh, Elsewhere
    <3> QED
      BY <3>2, <3>3
  <2> QED
    BY <2>1, <2>2
<1>8. ASSUME NEW c \in Clients PROVE Awaited(c)'
  <2>1. Promised(c)' => Promised(c)
    BY <1>3, <1>4, <1>5, <1>6 DEF Promised, InBacklog, Elsewhere
  <2>2. Promised(c) \/ cpc[c] = "start" => c \in Clients \ {fd[t]}
    BY <1>1, PromisedIsFree
  <2>3. c \in Clients \ {fd[t]} => toServer'[c] = toServer[c] /\ toClient'[c] = toClient[c]
    BY <1>3 DEF Elsewhere
  <2> QED
    BY <1>6, <2>1, <2>2, <2>3 DEF Running, Awaited, Idle
<1>9. \A s \in Threads : CalmThread(s)'
  BY <1>3 DEF Running
<1> QED
  BY <1>1, <1>3, <1>7, <1>8, <1>9 DEF Running

(* A client that waits for a thread can do nothing.                          *)
LEMMA WaitsForThread ==
    ASSUME NEW c \in Clients, process = "up", ClientStep(c),
           Idle(c, "recv", <<Header("CLIENT_HELLO")>>)
    PROVE  FALSE
<1>1. cpc[c] = "recv" /\ Chunks(toClient[c]) = {}
  BY ChunkOfNone DEF Idle
<1> QED
  BY <1>1 DEF ClientStep, Connect, ConnectionFailed, SendSolution, ClientFailsToParse, LoseServer

LEMMA PeerKeepsRunning ==
    ASSUME Running, Arrival = "single", NEW c \in Clients, PeerStep(c)
    PROVE  Running'
<1>1. OnePlace /\ OnePlace' /\ TypeOK /\ process = "up"
  BY PeerKeepsPlace DEF Running, OnePlace, PaidServer
<1>2. ClientStep(c) /\ UNCHANGED <<newSocket, mainPc>>
  BY DEF PeerStep, ConnectQueued, ClientStep, loopVars
<1>3. /\ UNCHANGED <<fd, threadVars, bookVars>>
      /\ \A b \in Clients \ {c} :
            /\ cpc'[b] = cpc[b] /\ cDataBuf'[b] = cDataBuf[b]
            /\ toServer'[b] = toServer[b] /\ toClient'[b] = toClient[b]
  BY <1>1, <1>2, ClientStepIsOwn
<1>4. process' = process /\ \A b \in Clients \ {c} : cHasData'[b] = cHasData[b]
  BY <1>1, <1>2, ClientSparesServer
<1>5. ASSUME NEW t \in Threads PROVE CalmThread(t)' /\ Attended(t)' /\ Unattended(t)'
  <2>1. CalmThread(t)' /\ Unattended(t)'
    BY <1>3 DEF Running, CalmThread, Unattended, Fresh, threadVars, bookVars
  <2>2. CASE fd[t] = c
    <3>1. HasPeer(t) /\ InTurn(t) /\ CalmClient(fd[t])
      BY <2>2 DEF HasPeer, Running, Attended
    <3>2. InTurn(t)' /\ CalmClient(fd[t])'
      BY <1>1, <1>2, <2>2, <3>1, ClientTurn, CalmClientTurn
    <3> QED
      BY <2>1, <3>2 DEF Attended
  <2>3. CASE fd[t] # c
    <3> SUFFICES ASSUME HasPeer(t) PROVE Attended(t)'
      BY <1>3, <2>1 DEF Attended, HasPeer
    <3>1. InTurn(t) /\ CalmClient(fd[t]) /\ fd[t] \in Clients \ {c}
      BY <2>3 DEF HasPeer, Running, Attended
    <3>2. InTurn(t)'
      BY <1>1, <1>2, <2>3, <3>1, ClientStepKeeps
    <3>3. CalmClient(fd[t])'
      BY <1>3, <1>4, <3>1 DEF CalmClient
    <3> QED
      BY <3>2, <3>3 DEF Attended
  <2> QED
    BY <2>2, <2>3
<1>6. CASE ConnectQueued(c)
  <2>1. Connect(c) /\ backlog' = Append(backlog, c)
    BY <1>6 DEF ConnectQueued
  <2>2. cpc[c] = "start" /\ Idle(c, "start", <<>>)
    BY <2>1 DEF Connect, Running, Awaited
  <2>3. Idle(c, "recv", <<Header("CLIENT_HELLO")>>)'
    <3>1. ClientSends(c, <<Header("CLIENT_HELLO")>>) /\ UNCHANGED <<cHasData, cDataBuf, toClient>>
          /\ cpc'[c] = "recv"
      BY <1>1, <2>1 DEF Connect, TypeOK
    <3>2. toServer' = [toServer EXCEPT ![c] = @ \o <<Header("CLIENT_HELLO")>>]
      BY <3>1 DEF ClientSends
    <3>3. toServer'[c] = <<>> \o <<Header("CLIENT_HELLO")>>
      BY <1>1, <2>2, <3>2 DEF Idle, TypeOK
    <3>4. <<>> \o <<Header("CLIENT_HELLO")>> = <<Header("CLIENT_HELLO")>>
      BY HeaderSent, ConcatEmptySeq DEF ClientMessages
    <3> QED
      BY <2>2, <3>1, <3>3, <3>4 DEF Idle
  <2>4. \A b \in Clients : Promised(b)' => Promised(b) \/ b = c
    <3>1. /\ backlog \in Seq(Clients) /\ Len(backlog) \in Nat
          /\ DOMAIN backlog = 1 .. Len(backlog) /\ DOMAIN backlog' = 1 .. Len(backlog) + 1
          /\ \A i \in 1 .. Len(backlog) : backlog'[i] = backlog[i]
          /\ backlog'[Len(backlog) + 1] = c
      BY <1>1, <2>1, AppendProperties, LenProperties DEF OnePlace, PaidServer
    <3>2. \A b \in Clients : InBacklog(b)' => InBacklog(b) \/ b = c
      BY <3>1 DEF InBacklog
    <3> QED
      BY <1>2, <1>3, <3>2 DEF Promised, threadVars
  <2>5. cpc'[c] # "start"
    BY <2>3 DEF Idle
  <2>6. ASSUME NEW b \in Clients PROVE Awaited(b)'
    <3>1. CASE b = c
      BY <2>3, <2>5, <3>1 DEF Awaited
    <3>2. CASE b # c
      BY <1>3, <1>4, <2>4, <3>2 DEF Running, Awaited, Idle
    <3> QED
      BY <3>1, <3>2
  <2> QED
    BY <1>1, <1>4, <1>5, <2>6 DEF Running
<1>7. CASE cpc[c] # "start" /\ backlog' = backlog
  <2>1. \A b \in Clients : Promised(b)' => Promised(b)
    BY <1>2, <1>3, <1>7 DEF Promised, InBacklog, threadVars
  <2>2. ~ Promised(c)
    BY <1>1, <1>2, WaitsForThread DEF Running, Awaited
  <2>3. cpc'[c] # "start"
    BY <1>1, <1>2, <1>7 DEF TypeOK, ClientStep, Connect, ConnectionFailed, ClientAnswers,
       TakeResource, TakePuzzle, ReadPuzzleData, TakeEnd, ClientIgnores, SendSolution,
       ClientFailsToParse, LoseServer
  <2>4. ASSUME NEW b \in Clients PROVE Awaited(b)'
    <3>1. CASE b = c
      BY <2>1, <2>2, <2>3, <3>1 DEF Awaited
    <3>2. CASE b # c
      BY <1>3, <1>4, <2>1, <3>2 DEF Running, Awaited, Idle
    <3> QED
      BY <3>1, <3>2
  <2> QED
    BY <1>1, <1>4, <1>5, <2>4 DEF Running
<1> QED
  BY <1>1, <1>6, <1>7 DEF PeerStep, loopVars

(* An exhausted server stays as it is: only clients move.                    *)
LEMMA StaysExhausted ==
    ASSUME Exhausted, ServerNext
    PROVE  Exhausted'
<1>1. process # "up"
  BY DEF Exhausted
<1>2. ~ MainStep
  BY <1>1 DEF MainStep, Accept, AcceptFails, CreateThread, JoinBatch
<1>3. ASSUME NEW t \in Threads PROVE ~ ThreadStep(t)
  <2>1. \A at, us : ~ ServerReads(t, at, us)
    BY <1>1 DEF ServerReads
  <2>2. \A us : ~ Reading(t, us)
    BY <2>1 DEF Reading, RejectBytes, AnswerHello, IssuePuzzle, TakeSolution, RefuseSolution,
       ReadSolutionData, SendResource, HelloAgain, CloseThread, IgnoreText
  <2>3. \A d : ~ Judgement(t, d)
    BY <1>1 DEF Judgement, AcceptAnswer, AskAgain, GiveUp, Judges
  <2>4. ~ ServerStep(t)
    BY <1>1, <2>2, <2>3 DEF ServerStep, Reading, Judgement, FailToParse, LosePeer
  <2> QED
    BY <1>1, <2>4 DEF ThreadStep, ThreadStarts
<1>4. ASSUME NEW c \in Clients, PeerStep(c) PROVE Exhausted'
  <2>1. UNCHANGED <<opened, limit>>
    BY <1>4 DEF PeerStep, ConnectQueued, loopVars
  <2>2. ClientStep(c) /\ ~ Connect(c)
    BY <1>1, <1>4 DEF PeerStep, ConnectQueued, Connect
  <2>3. process' = process
    BY <2>2 DEF ClientStep, ConnectionFailed, ClientAnswers, TakeResource, TakePuzzle,
       ReadPuzzleData, TakeEnd, ClientIgnores, SendSolution, ClientFailsToParse, LoseServer,
       ClientSends, socketVars
  <2> QED
    BY <2>1, <2>3 DEF Exhausted
<1> QED
  BY <1>2, <1>3, <1>4 DEF ServerNext

(* DeathIsExhaustion: while new threads are prompt and every send arrives by *)
(* itself, the only thing that ever ends the server is that accept() has no  *)
(* descriptor left, which is bound to happen as none is closed.              *)
THEOREM OnlyExhaustionKills ==
    ASSUME Arrival = "single", PromptStart
    PROVE  ServerSpec => []DeathIsExhaustion
<1>1. (Running \/ Exhausted) /\ [ServerNext]_serverVars => (Running \/ Exhausted)'
  <2> SUFFICES ASSUME Running \/ Exhausted, [ServerNext]_serverVars
               PROVE  Running' \/ Exhausted'
    OBVIOUS
  <2>1. CASE UNCHANGED serverVars
    <3>1. UNCHANGED <<process, opened, limit>> /\ UNCHANGED <<vars, loopVars, paid>>
      BY <2>1 DEF serverVars, loopVars, vars, socketVars
    <3>2. Exhausted => Exhausted'
      BY <3>1 DEF Exhausted
    <3>3. Running => Running'
      BY <3>1, IdleKeepsRunning
    <3> QED
      BY <3>2, <3>3
  <2>2. CASE Exhausted /\ ServerNext
    BY <2>2, StaysExhausted
  <2>3. CASE Running /\ ServerNext
    <3>1. CASE MainStep
      BY <2>3, <3>1, MainKeepsRunning
    <3>2. ASSUME NEW t \in Threads, ThreadStep(t) PROVE Running'
      <4>1. CASE ThreadStarts(t)
        BY <2>3, <4>1, StartKeepsRunning
      <4>2. CASE ServerStep(t) /\ UNCHANGED loopVars
        BY <2>3, <3>2, <4>2, ServerStepKeepsRunning
      <4> QED
        BY <3>2, <4>1, <4>2 DEF ThreadStep
    <3>3. ASSUME NEW c \in Clients, PeerStep(c) PROVE Running'
      BY <2>3, <3>3, PeerKeepsRunning
    <3> QED
      BY <2>3, <3>1, <3>2, <3>3 DEF ServerNext
  <2> QED
    BY <2>1, <2>2, <2>3
<1>2. Running \/ Exhausted => DeathIsExhaustion
  BY DEF Running, Exhausted, DeathIsExhaustion
<1> QED
  BY <1>1, <1>2, RunningInit, PTL DEF ServerSpec
=============================================================================
