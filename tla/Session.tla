------------------------------- MODULE Session -------------------------------
(***************************************************************************)
(* The client puzzle handshake: the loop of socketThread (server.cpp) and  *)
(* the loop of the client's main (client.cpp), over the two byte streams   *)
(* of a TCP connection.                                                    *)
(*                                                                         *)
(* A stream is a queue of units, one per send().  A recv() returns a       *)
(* nonempty run of the units queued so far, because TCP keeps the bytes in *)
(* order but not the boundaries between sends.  A send of this program is  *)
(* never split: the longest is under 300 bytes.  Left out: hash values,    *)
(* the text of a payload beyond what parsing it yields, and logging.       *)
(***************************************************************************)
EXTENDS Integers, Sequences, FiniteSets

CONSTANTS Clients,          (* client processes, one connection each         *)
          Threads,          (* server threads                                *)
          Puzzles,          (* puzzles the server can hand out               *)
          RoundsOf,         (* hash rounds each puzzle was made with         *)
          MIN_ITERATIONS,
          MAX_ITERATIONS,
          MAX_RETRY,        (* the 3 of "if (retry < 3)"                     *)
          OneTime,          (* TRUE: answers are looked up in a bucket and   *)
                            (* used up (MyProposal); FALSE: recomputed       *)
                            (* (InitialProposal)                             *)
          Arrival,          (* how recv() groups the queued units            *)
          MayVanish,        (* clients that may be killed while connected    *)
          NoSocket,         (* a thread that has not got a connection        *)
          NoData,           (* no data part                                  *)
          Wrong,            (* an answer to no puzzle: the search failed     *)
          Unparsable        (* text without the tokens a payload has, or none *)

(* rounds = MIN_ITERATIONS + (rand() % MAX_ITERATIONS)                       *)
Rounds == MIN_ITERATIONS .. (MIN_ITERATIONS + MAX_ITERATIONS - 1)

ASSUME IterationsAssumption ==
    /\ MIN_ITERATIONS \in Nat \ {0}
    /\ MAX_ITERATIONS \in Nat \ {0}
    /\ RoundsOf \in [Puzzles -> Rounds]

ASSUME ParameterAssumption ==
    /\ MAX_RETRY \in Nat
    /\ OneTime \in BOOLEAN
    /\ Arrival \in {"single", "whole", "any"}
    /\ MayVanish \subseteq Clients

ASSUME ValueAssumption ==
    /\ NoSocket \notin Clients
    /\ {NoData, Wrong, Unparsable} \cap Puzzles = {}
    /\ NoData # Wrong /\ NoData # Unparsable /\ Wrong # Unparsable

VARIABLES
    process,      (* the server process, with all its threads: "up" or "dead" *)
    fd,           (* newSocket of each thread                                *)
    spc,          (* which recv the thread is in, or that its loop ended     *)
    issued,       (* issued_puzzle                                           *)
    authenticated,
    retry,
    sHasData,     (* hasData and dataBuf of the thread                       *)
    sDataBuf,
    cpc,          (* which recv the client is in, or how it ended            *)
    cHasData,     (* hasData and dataBuf of the client                       *)
    cDataBuf,
    toServer,     (* units sent and not yet received, per connection         *)
    toClient,
    bucket,       (* puzzles an answer is still accepted for                 *)
    given,        (* history: puzzles sent by each thread, in order          *)
    verdicts      (* history: answers each thread judged, in order           *)

socketVars == <<process, fd>>
threadVars == <<spc, issued, authenticated, retry, sHasData, sDataBuf>>
clientVars == <<cpc, cHasData, cDataBuf>>
netVars    == <<toServer, toClient>>
bookVars   == <<bucket, given, verdicts>>
vars == <<socketVars, threadVars, clientVars, netVars, bookVars>>

-----------------------------------------------------------------------------
(* Messages and what one recv() makes of them.                               *)

ClientMessages == {"CLIENT_HELLO", "ACK_HELLO", "CLIENT_PUZZLE_SOLUTION",
                   "GET_RESOURCE", "END_SESSION", "INVALID_REQUEST"}
ServerMessages == {"SERVER_HELLO", "HANDSHAKE_COMPLETE", "CLIENT_PUZZLE",
                   "CLIENT_PUZZLE_RETRY", "RESOURCE", "END_SESSION",
                   "INVALID_REQUEST"}
NoMsg   == "no message"      (* a unit that starts with DATA, not a header   *)
Garbled == "garbled"         (* two headers run together: equal to none      *)

Answers == Puzzles \cup {Wrong}

Header(m)  == [msg |-> m, data |-> NoData]
Payload(d) == [msg |-> NoMsg, data |-> d]
Units(msgs, payloads) == { Header(m) : m \in msgs } \cup { Payload(d) : d \in payloads }

(* The first n units, for each n that recv() may return.                     *)
Chunks(queue) ==
    { SubSeq(queue, 1, n) :
        n \in { i \in 1 .. Len(queue) : /\ Arrival = "single" => i = 1
                                        /\ Arrival = "whole" => i = Len(queue) } }

After(queue, us) == SubSeq(queue, Len(us) + 1, Len(queue))

(* stringBuf: the text between the header mark and the data mark.            *)
Text(us) ==
    IF Len(us) = 1 \/ us[1].msg = NoMsg \/ us[2].msg = NoMsg
      THEN us[1].msg
      ELSE Garbled

PayloadAt(us) == { i \in DOMAIN us : us[i].msg = NoMsg }
Carries(us) == us[1].msg # NoMsg /\ PayloadAt(us) # {}

(* What the tokens of a text yield.  Units behind a payload only lengthen    *)
(* its last token, which stoi() reads up to the first non-digit; but with a  *)
(* second payload there are more tokens than dat[] holds, and the loop       *)
(* writes past its end.                                                      *)
Parsed(us) ==
    { us[i].data : i \in PayloadAt(us) }
      \cup (IF Cardinality(PayloadAt(us)) > 1 THEN {Unparsable} ELSE {})

(* What the second recv() leaves in dataBuf: everything.  Behind a header    *)
(* the first token of a payload is spoiled; the server uses that token.      *)
ClientData(us) == IF PayloadAt(us) = {} THEN {Unparsable} ELSE Parsed(us)
ServerData(us) == IF Carries(us) THEN {Wrong} ELSE ClientData(us)

-----------------------------------------------------------------------------
Init ==
    /\ process = "up"
    /\ fd \in { f \in [Threads -> Clients] : \A s, t \in Threads : f[s] = f[t] => s = t }
    /\ spc = [t \in Threads |-> "recv"]
    /\ issued = [t \in Threads |-> FALSE]
    /\ authenticated = [t \in Threads |-> FALSE]
    /\ retry = [t \in Threads |-> 0]
    /\ sHasData = [t \in Threads |-> FALSE]
    /\ sDataBuf = [t \in Threads |-> Unparsable]
    /\ cpc = [c \in Clients |-> "start"]
    /\ cHasData = [c \in Clients |-> FALSE]
    /\ cDataBuf = [c \in Clients |-> Unparsable]
    /\ toServer = [c \in Clients |-> <<>>]
    /\ toClient = [c \in Clients |-> <<>>]
    /\ bucket = {}
    /\ given = [t \in Threads |-> <<>>]
    /\ verdicts = [t \in Threads |-> <<>>]

-----------------------------------------------------------------------------
(* The server thread t.                                                      *)

ServerReads(t, at, us) ==
    /\ process = "up"
    /\ fd[t] # NoSocket
    /\ spc[t] = at
    /\ us \in Chunks(toServer[fd[t]])
    /\ toServer' = [toServer EXCEPT ![fd[t]] = After(@, us)]

Reply(t, units) ==
    /\ toClient' = [toClient EXCEPT ![fd[t]] = @ \o units]
    /\ UNCHANGED <<socketVars, clientVars>>

(* Lines 55-58: a data part that came with the header is kept, and nothing   *)
(* but the next one replaces it.                                             *)
ServerCollects(t, us) ==
    IF Carries(us)
      THEN /\ sHasData' = [sHasData EXCEPT ![t] = TRUE]
           /\ \E d \in Parsed(us) : sDataBuf' = [sDataBuf EXCEPT ![t] = d]
      ELSE UNCHANGED <<sHasData, sDataBuf>>

PuzzleHeaderOnly(m, p) == <<Header(m)>>    (* mutation: the second send is missing *)
PuzzleThenDone(m, p) ==                    (* mutation: no continue at line 142 *)
    <<Header(m), Payload(p), Header("HANDSHAKE_COMPLETE")>>
PuzzleUnits(m, p) == <<Header(m), Payload(p)>>

(* getPuzzlePayload(): any puzzle; MyProposal puts it in the bucket.         *)
HandOut(t, m, p, left) ==
    /\ Reply(t, PuzzleUnits(m, p))
    /\ given' = [given EXCEPT ![t] = Append(@, p)]
    /\ bucket' = IF OneTime THEN left \cup {p} ELSE left

(* Bytes that do not start with the header mark.                             *)
RejectBytes(t, us) ==
    /\ ServerReads(t, "recv", us)
    /\ Text(us) = NoMsg
    /\ Reply(t, <<Header("INVALID_REQUEST")>>)
    /\ UNCHANGED <<threadVars, bookVars>>

AnswerHello(t, us) ==
    /\ ServerReads(t, "recv", us)
    /\ Text(us) = "CLIENT_HELLO"
    /\ ServerCollects(t, us)
    /\ Reply(t, <<Header("SERVER_HELLO")>>)
    /\ UNCHANGED <<spc, issued, authenticated, retry, bookVars>>

IssuePuzzle(t, us) ==
    /\ ServerReads(t, "recv", us)
    /\ Text(us) = "ACK_HELLO"
    /\ ServerCollects(t, us)
    /\ \E p \in Puzzles : HandOut(t, "CLIENT_PUZZLE", p, bucket)
    /\ issued' = [issued EXCEPT ![t] = TRUE]
    /\ UNCHANGED <<spc, authenticated, retry, verdicts>>

DataAtOnce(has) == "judge"    (* mutation: no second recv() *)
DataNext(has) == IF has THEN "judge" ELSE "recvData"

(* Line 97: the data part is read only when none was ever collected.         *)
TakeSolution(t, us) ==
    /\ ServerReads(t, "recv", us)
    /\ Text(us) = "CLIENT_PUZZLE_SOLUTION"
    /\ issued[t]
    /\ ServerCollects(t, us)
    /\ spc' = [spc EXCEPT ![t] = DataNext(sHasData'[t])]
    /\ UNCHANGED <<socketVars, issued, authenticated, retry, clientVars, toClient, bookVars>>

RefuseSolution(t, us) ==
    /\ ServerReads(t, "recv", us)
    /\ Text(us) = "CLIENT_PUZZLE_SOLUTION"
    /\ ~issued[t]
    /\ ServerCollects(t, us)
    /\ Reply(t, <<Header("INVALID_REQUEST")>>)
    /\ UNCHANGED <<spc, issued, authenticated, retry, bookVars>>

ReadSolutionData(t, us) ==
    /\ ServerReads(t, "recvData", us)
    /\ \E d \in ServerData(us) : sDataBuf' = [sDataBuf EXCEPT ![t] = d]
    /\ spc' = [spc EXCEPT ![t] = "judge"]
    /\ UNCHANGED <<socketVars, issued, authenticated, retry, sHasData, clientVars,
                   toClient, bookVars>>

ValidAlways(d) == TRUE    (* mutation: the verdict is not tested *)
LeftUnused(d) == bucket   (* mutation: the answer is not removed *)

(* verifySolution(): MyProposal looks the answer up and removes it whether   *)
(* or not it is there; InitialProposal hashes it again.                      *)
Valid(d) == IF OneTime THEN d \in bucket ELSE d # Wrong
LeftAfter(d) == bucket \ {d}

DataKept(d) == d    (* mutation: dataBuf is not consumed *)
DataLeft(d) == Unparsable

(* Lines 106-125: the tokens are taken off dataBuf, which keeps the last.    *)
Judges(t, d, ok) ==
    /\ process = "up"
    /\ spc[t] = "judge"
    /\ d = sDataBuf[t] /\ d \in Answers
    /\ ok = Valid(d)
    /\ sDataBuf' = [sDataBuf EXCEPT ![t] = DataLeft(d)]
    /\ verdicts' = [verdicts EXCEPT ![t] = Append(@, [answer |-> d, ok |-> ok])]

AcceptAnswer(t, d) ==
    /\ Judges(t, d, TRUE)
    /\ Reply(t, <<Header("HANDSHAKE_COMPLETE")>>)
    /\ bucket' = LeftAfter(d)
    /\ spc' = [spc EXCEPT ![t] = "recv"]
    /\ authenticated' = [authenticated EXCEPT ![t] = TRUE]
    /\ issued' = [issued EXCEPT ![t] = FALSE]
    /\ UNCHANGED <<retry, sHasData, toServer, given>>

AlwaysRetry(t) == TRUE                          (* mutation: no limit   *)
RetryEarly(t)  == retry[t] < MAX_RETRY - 1      (* mutation: off by one *)
RetryLeft(t)   == retry[t] < MAX_RETRY

AskAgain(t, d) ==
    /\ Judges(t, d, FALSE)
    /\ RetryLeft(t)
    /\ \E p \in Puzzles : HandOut(t, "CLIENT_PUZZLE_RETRY", p, LeftAfter(d))
    /\ spc' = [spc EXCEPT ![t] = "recv"]
    /\ retry' = [retry EXCEPT ![t] = @ + 1]
    /\ UNCHANGED <<issued, authenticated, sHasData, toServer>>

NoFarewell == <<>>    (* mutation: the client is not told *)
Farewell == <<Header("END_SESSION")>>

GiveUp(t, d) ==
    /\ Judges(t, d, FALSE)
    /\ ~RetryLeft(t)
    /\ Reply(t, Farewell)
    /\ bucket' = LeftAfter(d)
    /\ spc' = [spc EXCEPT ![t] = "done"]
    /\ UNCHANGED <<issued, authenticated, retry, sHasData, toServer, given>>

(* stoi() throws, nothing catches it, and the whole process ends.            *)
FailToParse(t) ==
    /\ process = "up"
    /\ spc[t] = "judge"
    /\ sDataBuf[t] = Unparsable
    /\ process' = "dead"
    /\ UNCHANGED <<fd, threadVars, clientVars, netVars, bookVars>>

SendResource(t, us) ==
    /\ ServerReads(t, "recv", us)
    /\ Text(us) = "GET_RESOURCE"
    /\ ServerCollects(t, us)
    /\ Reply(t, <<Header(IF authenticated[t] THEN "RESOURCE" ELSE "INVALID_REQUEST")>>)
    /\ UNCHANGED <<spc, issued, authenticated, retry, bookVars>>

(* Lines 179-186: the reply is a hello, not the INVALID_REQUEST it logs.     *)
HelloAgain(t, us) ==
    /\ ServerReads(t, "recv", us)
    /\ Text(us) = "INVALID_REQUEST"
    /\ ServerCollects(t, us)
    /\ Reply(t, <<Header("SERVER_HELLO")>>)
    /\ UNCHANGED <<spc, issued, authenticated, retry, bookVars>>

CloseThread(t, us) ==
    /\ ServerReads(t, "recv", us)
    /\ Text(us) = "END_SESSION"
    /\ ServerCollects(t, us)
    /\ spc' = [spc EXCEPT ![t] = "done"]
    /\ UNCHANGED <<socketVars, issued, authenticated, retry, clientVars, toClient, bookVars>>

IgnoreText(t, us) ==
    /\ ServerReads(t, "recv", us)
    /\ Text(us) = Garbled
    /\ ServerCollects(t, us)
    /\ UNCHANGED <<socketVars, spc, issued, authenticated, retry, clientVars, toClient,
                   bookVars>>

(* The peer has closed its end: recv() finds no bytes, or a reset because    *)
(* bytes were left unread there.  In the main loop the replies to it end in  *)
(* SIGPIPE; in the second recv() the empty text fails to parse.  No handler  *)
(* is installed for either, so the process dies with every session in it.    *)
Closed == {"served", "ended", "aborted", "killed", "refused"}

LosePeer(t) ==
    /\ process = "up"
    /\ fd[t] # NoSocket
    /\ spc[t] \in {"recv", "recvData"}
    /\ cpc[fd[t]] \in Closed
    /\ toServer[fd[t]] = <<>> \/ toClient[fd[t]] # <<>>
    /\ process' = "dead"
    /\ UNCHANGED <<fd, threadVars, clientVars, netVars, bookVars>>

ServerStep(t) ==
    \/ fd[t] # NoSocket /\ \E us \in Chunks(toServer[fd[t]]) :
          \/ RejectBytes(t, us)  \/ AnswerHello(t, us)    \/ IssuePuzzle(t, us)
          \/ TakeSolution(t, us) \/ RefuseSolution(t, us) \/ ReadSolutionData(t, us)
          \/ SendResource(t, us) \/ HelloAgain(t, us)     \/ CloseThread(t, us)
          \/ IgnoreText(t, us)
    \/ \E d \in Answers : AcceptAnswer(t, d) \/ AskAgain(t, d) \/ GiveUp(t, d)
    \/ FailToParse(t)
    \/ LosePeer(t)

-----------------------------------------------------------------------------
(* The client c.                                                             *)

ClientReads(c, at, us) ==
    /\ cpc[c] = at
    /\ us \in Chunks(toClient[c])
    /\ toClient' = [toClient EXCEPT ![c] = After(@, us)]

ClientSends(c, units) ==
    /\ toServer' = [toServer EXCEPT ![c] = @ \o units]
    /\ UNCHANGED <<socketVars, threadVars, bookVars>>

ClientCollects(c, us) ==
    IF Carries(us)
      THEN /\ cHasData' = [cHasData EXCEPT ![c] = TRUE]
           /\ \E d \in Parsed(us) : cDataBuf' = [cDataBuf EXCEPT ![c] = d]
      ELSE UNCHANGED <<cHasData, cDataBuf>>

(* connect(), then the hello of line 46.                                     *)
Connect(c) ==
    /\ cpc[c] = "start"
    /\ process = "up"
    /\ cpc' = [cpc EXCEPT ![c] = "recv"]
    /\ ClientSends(c, <<Header("CLIENT_HELLO")>>)
    /\ UNCHANGED <<cHasData, cDataBuf, toClient>>

ConnectionFailed(c) ==
    /\ cpc[c] = "start"
    /\ process # "up"
    /\ cpc' = [cpc EXCEPT ![c] = "refused"]
    /\ UNCHANGED <<socketVars, threadVars, cHasData, cDataBuf, netVars, bookVars>>

(* The messages answered by one message of the same loop iteration.          *)
ReplyTo == [m \in {NoMsg, "SERVER_HELLO", "HANDSHAKE_COMPLETE", "INVALID_REQUEST"} |->
              CASE m = NoMsg                -> "INVALID_REQUEST"
                [] m = "SERVER_HELLO"       -> "ACK_HELLO"
                [] m = "HANDSHAKE_COMPLETE" -> "GET_RESOURCE"
                [] m = "INVALID_REQUEST"    -> "CLIENT_HELLO"]

ClientAnswers(c, us) ==
    /\ ClientReads(c, "recv", us)
    /\ Text(us) \in DOMAIN ReplyTo
    /\ ClientCollects(c, us)
    /\ ClientSends(c, <<Header(ReplyTo[Text(us)])>>)
    /\ UNCHANGED cpc

TakeResource(c, us) ==
    /\ ClientReads(c, "recv", us)
    /\ Text(us) = "RESOURCE"
    /\ ClientCollects(c, us)
    /\ ClientSends(c, <<Header("END_SESSION")>>)
    /\ cpc' = [cpc EXCEPT ![c] = "served"]

TakePuzzle(c, us) ==
    /\ ClientReads(c, "recv", us)
    /\ Text(us) \in {"CLIENT_PUZZLE", "CLIENT_PUZZLE_RETRY"}
    /\ ClientCollects(c, us)
    /\ cpc' = [cpc EXCEPT ![c] = IF cHasData'[c] THEN "solve" ELSE "recvData"]
    /\ UNCHANGED <<socketVars, threadVars, toServer, bookVars>>

ReadPuzzleData(c, us) ==
    /\ ClientReads(c, "recvData", us)
    /\ \E d \in ClientData(us) : cDataBuf' = [cDataBuf EXCEPT ![c] = d]
    /\ cpc' = [cpc EXCEPT ![c] = "solve"]
    /\ UNCHANGED <<socketVars, threadVars, cHasData, toServer, bookVars>>

(* hashCheck() tries at most MAX_ITERATIONS rounds on each guess.            *)
Solvable(p) == RoundsOf[p] <= MAX_ITERATIONS
AnswerToOffByOne(p) ==    (* mutation: the last round is not compared *)
    IF RoundsOf[p] < MAX_ITERATIONS THEN p ELSE Wrong

AnswerTo(p) == IF Solvable(p) THEN p ELSE Wrong

SendSolution(c) ==
    /\ cpc[c] = "solve"
    /\ cDataBuf[c] \in Puzzles
    /\ ClientSends(c, <<Header("CLIENT_PUZZLE_SOLUTION"), Payload(AnswerTo(cDataBuf[c]))>>)
    /\ cpc' = [cpc EXCEPT ![c] = "recv"]
    /\ cDataBuf' = [cDataBuf EXCEPT ![c] = Unparsable]
    /\ UNCHANGED <<cHasData, toClient>>

(* stoi() throws in the client.                                              *)
ClientFailsToParse(c) ==
    /\ cpc[c] = "solve"
    /\ cDataBuf[c] = Unparsable
    /\ cpc' = [cpc EXCEPT ![c] = "aborted"]
    /\ UNCHANGED <<socketVars, threadVars, cHasData, cDataBuf, netVars, bookVars>>

TakeEnd(c, us) ==
    /\ ClientReads(c, "recv", us)
    /\ Text(us) = "END_SESSION"
    /\ ClientCollects(c, us)
    /\ cpc' = [cpc EXCEPT ![c] = "ended"]
    /\ UNCHANGED <<socketVars, threadVars, toServer, bookVars>>

ClientIgnores(c, us) ==
    /\ ClientReads(c, "recv", us)
    /\ Text(us) = Garbled
    /\ ClientCollects(c, us)
    /\ UNCHANGED <<socketVars, threadVars, cpc, toServer, bookVars>>

(* The server process is gone: "".substr(1, n) throws.                       *)
LoseServer(c) ==
    /\ process # "up"
    /\ cpc[c] \in {"recv", "recvData"}
    /\ toClient[c] = <<>> \/ toServer[c] # <<>>
    /\ cpc' = [cpc EXCEPT ![c] = "aborted"]
    /\ UNCHANGED <<socketVars, threadVars, cHasData, cDataBuf, netVars, bookVars>>

ClientStep(c) ==
    \/ Connect(c) \/ ConnectionFailed(c)
    \/ \E us \in Chunks(toClient[c]) :
          \/ ClientAnswers(c, us)  \/ TakeResource(c, us) \/ TakePuzzle(c, us)
          \/ ReadPuzzleData(c, us) \/ TakeEnd(c, us)      \/ ClientIgnores(c, us)
    \/ SendSolution(c) \/ ClientFailsToParse(c)
    \/ LoseServer(c)

(* The client is killed; a data part it was about to send may be missing.    *)
Vanish(c) ==
    /\ c \in MayVanish
    /\ cpc[c] \in {"recv", "recvData", "solve"}
    /\ cpc' = [cpc EXCEPT ![c] = "killed"]
    /\ LET q == toServer[c]
       IN \/ UNCHANGED toServer
          \/ /\ q # <<>> /\ q[Len(q)].msg = NoMsg
             /\ toServer' = [toServer EXCEPT ![c] = SubSeq(q, 1, Len(q) - 1)]
    /\ UNCHANGED <<socketVars, threadVars, cHasData, cDataBuf, toClient, bookVars>>

-----------------------------------------------------------------------------
Next ==
    \/ \E t \in Threads : ServerStep(t)
    \/ \E c \in Clients : ClientStep(c) \/ Vanish(c)

Spec == Init /\ [][Next]_vars

(* Every thread and every client is scheduled, recv() returns once bytes     *)
(* are queued, and the search for an answer ends.  Nobody has to vanish.     *)
Fairness == /\ \A t \in Threads : WF_vars(ServerStep(t))
            /\ \A c \in Clients : WF_vars(ClientStep(c))

FairSpec == Spec /\ Fairness

-----------------------------------------------------------------------------
(* Every variable keeps its type; above all, no thread counts past the three *)
(* retries, and a payload on its way to a side is one that side can parse.   *)
TypeOK ==
    /\ process \in {"up", "dead"}
    /\ fd \in [Threads -> Clients \cup {NoSocket}]
    /\ spc \in [Threads -> {"recv", "recvData", "judge", "done"}]
    /\ issued \in [Threads -> BOOLEAN]
    /\ authenticated \in [Threads -> BOOLEAN]
    /\ retry \in [Threads -> 0 .. MAX_RETRY]
    /\ sHasData \in [Threads -> BOOLEAN]
    /\ sDataBuf \in [Threads -> Answers \cup {Unparsable}]
    /\ cpc \in [Clients -> {"start", "recv", "recvData", "solve"} \cup Closed]
    /\ cHasData \in [Clients -> BOOLEAN]
    /\ cDataBuf \in [Clients -> Puzzles \cup {Unparsable}]
    /\ toServer \in [Clients -> Seq(Units(ClientMessages, Answers))]
    /\ toClient \in [Clients -> Seq(Units(ServerMessages, Puzzles))]
    /\ bucket \subseteq Puzzles
    /\ given \in [Threads -> Seq(Puzzles)]
    /\ verdicts \in [Threads -> Seq([answer : Answers, ok : BOOLEAN])]

(* How many of t's answers were judged wrong.                                *)
Rejections(t) == Cardinality({ i \in DOMAIN verdicts[t] : ~verdicts[t][i].ok })

(* A thread that is waiting for the verdict-worthy answer to its last puzzle. *)
Outstanding(t, p) ==
    /\ Len(given[t]) = Len(verdicts[t]) + 1
    /\ given[t][Len(given[t])] = p

(* No two ends of a connection wait for each other: while both sit in a      *)
(* recv(), some bytes are on their way to one of them.                       *)
NoStandoff ==
    \A t \in Threads :
        LET c == fd[t]
        IN /\ process = "up"
           /\ spc[t] \in {"recv", "recvData"}
           /\ cpc[c] \in {"recv", "recvData"}
           => toServer[c] # <<>> \/ toClient[c] # <<>>

(* The two ends take turns: bytes never travel both ways at once.            *)
TurnTaking == \A c \in Clients : toServer[c] = <<>> \/ toClient[c] = <<>>

(* The i-th answer a thread judges answers the i-th puzzle it sent; a kept   *)
(* data part never makes it judge an earlier answer again.                   *)
AnswerMatchesPuzzle ==
    \A t \in Threads :
        /\ Len(verdicts[t]) <= Len(given[t])
        /\ \A i \in DOMAIN verdicts[t] : verdicts[t][i].answer \in {given[t][i], Wrong}

(* server.cpp:93-94, "Check solution if correct send HANDSHAKE_COMPLETE else *)
(* send CLIENT_PUZZLE_RETRY": a correct answer is never judged wrong, and a  *)
(* wrong one never correct.                                                  *)
CorrectAnswersAccepted ==
    \A t \in Threads : \A i \in DOMAIN verdicts[t] :
        verdicts[t][i].ok <=> verdicts[t][i].answer # Wrong

(* The server ends a session exactly when its last allowed retry was wrong   *)
(* too, and sends no puzzle beyond that.                                     *)
RetryLimit ==
    \A t \in Threads :
        /\ Len(given[t]) <= MAX_RETRY + 1
        /\ Rejections(t) = MAX_RETRY + 1 <=> (spc[t] = "done" /\ ~authenticated[t])

(* MyProposal: an answer is good for one use.  A puzzle the client can solve *)
(* is in the bucket only while some session still owes the answer to it.     *)
BucketOutstanding ==
    \A p \in bucket : Solvable(p) => \E t \in Threads : Outstanding(t, p)

(* An answer was accepted from c, by the thread of its connection.           *)
Paid(t) ==
    \E i \in DOMAIN verdicts[t] : verdicts[t][i].ok /\ verdicts[t][i].answer \in Puzzles
PaidOn(c) == \E t \in Threads : fd[t] = c /\ Paid(t)

(* Whoever holds the resource has had a correct answer accepted by the       *)
(* thread of its connection.                                                 *)
ServedAfterAccepted == \A c \in Clients : cpc[c] = "served" => PaidOn(c)

(* server.cpp:96, "Retrieve all the data from the output stream if it has    *)
(* not been collected already": when a thread gets to parse an answer, the   *)
(* text it holds has an answer's tokens, so stoi() does not throw.           *)
EveryAnswerIsCollected == \A t \in Threads : spc[t] = "judge" => sDataBuf[t] \in Answers

(* As long as no client is killed, the server stays up: no thread fails to   *)
(* parse an answer or replies to a client that has closed its end.           *)
ServerSurvives == process = "up"

(* Every client gets the resource or is told that the session is over.       *)
EveryClientFinishes == \A c \in Clients : <>(cpc[c] \in {"served", "ended"})

(* No client is left hanging, whatever recv() returns and whoever is killed. *)
EveryClientStops == \A c \in Clients : <>(cpc[c] \in Closed)

(* A client that was sent a puzzle it can solve is served.                   *)
SolverIsServed ==
    \A t \in Threads :
        (\E i \in DOMAIN given[t] : Solvable(given[t][i])) ~> (cpc[fd[t]] = "served")

(* Each session is a session of the gate.                                    *)
Stage(t) == CASE spc[t] = "done"   -> "closed"
              [] authenticated[t] /\ spc[t] # "done" -> "admitted"
              [] issued[t] /\ ~authenticated[t] /\ spc[t] # "done" -> "challenged"
              [] OTHER -> "asking"

Gate == INSTANCE PuzzleGate
          WITH Clients <- Threads,
               stage   <- [t \in Threads |-> Stage(t)],
               tries   <- retry,
               granted <- { t \in Threads : cpc[fd[t]] = "served" }

(* What the protocol promises about a session, kept by every step.           *)
ImplementsGate == Gate!GateSpec
=============================================================================
