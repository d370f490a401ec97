# Specifications of the client puzzle protocol

This directory holds TLA+ models of the client/server programs of the repository,
`src/InitialProposal` and `src/MyProposal`, of the third design begun in `src/MyProposalV2`,
and of the automata library grail as far as MyProposal and its tools rest on it; the TLC
configurations that check them on small instances; and TLAPS proofs of what matters most for
every instance.

A server answers a client's hello with a *puzzle*: a hash digest and a preimage of which some
hex digits are masked. Only a client that sends back the whole preimage gets the resource.
InitialProposal verifies an answer by hashing again; MyProposal prepares all puzzles in
advance as words of finite automata ("distribution" machines), remembers each word it hands
out in a "verification" machine, looks the answer up there and removes it. MyProposalV2 is a
file of puzzles with random access, without a server.

## Inventory

| component | source | state | operations | interacts by | module |
|---|---|---|---|---|---|
| session thread | `server.cpp` `socketThread` (two copies) | `issued_puzzle`, `authenticated`, `retry`, `hasData`, `dataBuf` | one branch per message | bytes of one connection; the shared `cr` (MyProposal) | `Session` |
| client | `client.cpp` `main` | `hasData`, `dataBuf` | one branch per message, second `recv`, search | bytes of its connection | `Session` |
| accept loop | `server.cpp` `main` | `new_socket`, `tid[50]`, `i` | accept, create, join 50 | address of `new_socket`, `pthread_join` | `PuzzleServer` |
| verification bucket | `MyProposal/crypt.h` | `verificationBucket`, `distributionBucket`, `COEFFICIENT` | `fetchRandomPuzzle`, `verifySolution` | called by every session thread, no lock | `VerificationBucket`, `MachineBucket` |
| puzzle files | `MyProposal/crypt.h`, `grail-adapter/io.cc` | `puzzles/puzzle_fm_<i>` | `runner`, `loadDFAFromFile` | the file system; run before the server listens | `PuzzleFiles` |
| puzzle store V2 | `MyProposalV2` | `puzzleFile.dat` | append a record, read a random one | the file system | `PuzzleStore` |
| search and hashing | `clientCrypto.h`, both `crypt.h` | `iterations`, `hashFound` | `generateEntry`, `generateClientPuzzle`, `bruteForceSearch`, `hashCheck`, `verifySolution` | the payloads of a session | `PuzzleSearch` |
| ICDFA generator | `generator.cc` | string, flags and final states of an enumeration | `next`, `reset`, number to string | nobody calls it | `Icdfa` |
| automata adapter | `dfa.cc`, `nfa.cc` | one machine | one function per operation | grail | `Adapter` |
| grail: machines | `grail/classes/fm` | start and final states, instructions | union, star, subset, minimisation, ... | called by filters, adapter, bucket | `Machines` |
| grail: expressions, languages | `grail/classes/re`, `fl` | a tree; a set of words | `+=`, `^=`, `star`, quotients, conversions | called by filters | `RegExp`, `Filters` |
| grail: filters | `grail/char/grail.cpp` | the operands of one call | some fifty commands | pipes, files, exit status | `Filters` |
| grail: containers | `array`, `set`, `list` | buffers, a static pool, `sorted` | `+=`, `-=`, `unique`, growth, destruction | under everything in grail | `Containers` |
| grail: parallel minimiser | `parMPI.cpp`, `dynarray1.cpp` | blocks per rank; a linked list with a remembered node | MPI messages | its ranks | `ParMinimise`, `DynArray` |
| benchmarks | both `execute.cpp` | - | timing loops | call `crypt.h` | - |

What is hard here: `send` boundaries are lost on the way, and the handlers parse what one
`recv` happened to return; `hasData` remembers across messages; threads are handed the address
of one shared variable; joins come in batches; the verification machines are shared without a
lock; a dead peer raises SIGPIPE and a bad token throws, and both end the whole process; the
puzzle's rounds, files and record indices have off-by-one boundaries; the library keeps
buffers in a static pool, trusts a `sorted` flag, and lets filters run on whatever the one
before left; the minimiser's ranks pair blocking messages through nested loops and decide each
for itself when to stop. `PROJECT.json` lists each of these under `hazards`, with its line and
the properties aimed at it.

What makes each part correct:

- session: a resource only after an accepted answer; verdicts belong to the puzzle they were
  asked for; the retry limit; turns are kept; every session ends;
- accept loop: one thread per connection, slots reused, no end of the server but for want of
  descriptors;
- bucket: exactly the words handed out and not redeemed, each redeemable once, nothing forged;
- files and store: every puzzle written is loaded, every index leads to one record;
- search: an answer is found exactly when there is one within the limit, what is found is
  accepted, what is sent after a vain search is not;
- generator: every string once, none skipped;
- library: every operation keeps the language its name promises, after any operations before
  it; a buffer has one owner; what claims to be sorted is; the minimiser's ranks stay in step
  and print the coarsest partition.

## Modules

`PuzzleGate` is the abstract protocol of one session: *asking, challenged, admitted, closed*,
with at most `MAX_RETRY` further challenges and the resource granted only to the admitted.

`Session` is the code on both ends of the connections. A stream is a queue of *units*, one
per `send`: a header with a message, or a payload. `Chunks` are the nonempty prefixes a
`recv` may return; `Text`, `Carries` and `Parsed` are what the parsing code makes of one.
Server actions are the branches of `socketThread`, one per message and early return; the
handler of a solution has two possible `recv`s in it and is therefore three steps (`TakeSolution`,
`ReadSolutionData`, then one of `AcceptAnswer`, `AskAgain`, `GiveUp`, `FailToParse`). Client
actions are the branches of its loop. The constant `OneTime` selects MyProposal's lookup in a bucket or
InitialProposal's recomputation; the rest of the two copies is the same. The refinement of
`PuzzleGate` (`ImplementsGate`) reads the stage of a session off `issued_puzzle`,
`authenticated` and the end of the loop.

`PuzzleServer` extends `Session` with the accept loop. Slots of `tid[]` are the threads;
`CreateThread` gives a thread fresh locals but no connection, `ThreadStarts` is its read of
`new_socket` through the pointer, which may come late, after `accept` has already overwritten
it. Main joins a full batch before it goes on.

`VerificationBucket` opens up what `Session` takes as one step: every read and write of a
shared machine is an action. `OneTimeBucket` is what it promises; `ImplementsOneTime` is the
refinement, with `Settled` as the words that count as redeemable in the middle of a call.
`MachineBucket` goes one level further down, for one machine and one call at a time: there the
set of words is a machine of grail, a word is added by the union of machines, found by running
the machine and removed by listing the language and building the machine anew.

`PuzzleFiles` is the start of a MyProposal server, and of the next ones in the same directory:
`runner` as `WritePortion` and `FinishWriting`, `loadDFAFromFile` as `LoadFile` and `Listen`, the three ways a start fails
(`ProgressFaults`, `LoadForever`, `FetchFaults`), `Kill` and `Start`. The total and the portion are variables,
chosen anew at every start, as `config.h` may be. `PuzzleServer` begins where this module gets to `listening`.

`PuzzleStore` is `puzzleCreator.cpp` of MyProposalV2: runs that append records of two fields, a
kill that may tear the record being written, and the read that draws a record and seeks to it.

`PuzzleSearch` is the life of one puzzle of either design: made (`generateEntry`, hashed a drawn
number of rounds), masked and sent, searched guess by guess in the order of `bruteForceSearch`
(`trail` is its recursion), answered, and verified. SHA-256 is any function of the constant
`Hashes`. `Session` has the same search by its outcome (`AnswerTo`).

`Machines` translates the operations of `fm.h` and its `.src` files, each as an operator on
machines `[start, final, arcs]`: renumbering, union, catenation, star, plus, complement, cross and shuffle
product, reversal, subset construction, completion, reachability, both minimisers, prefixes
and suffixes, `fmtofl`, `fltofm`. `RegExp` has the expression classes with their printed comparison, `+=`, `^=`,
`star` and the conversion to a machine or a language. `Filters` has the filters of `grail.cpp`
over these as programs: the command line, operands from a file or standard input, the
sequence of calls (`Table`), refusals and exit status, and a pipe into the next one.
`Adapter` has the functions of `DFA` and `NFA`, called in any sequence.

`Containers` has `array`, `set` and `list` with capacity, flag and the static pool of buffers.
`ParMinimise` is `parMPI.cpp`: rank 0, its workers, and a queue of messages each way between it and each of them.
`DynArray` is the list it keeps block numbers in. `Icdfa` is `generator.cc`: its properties are about the strings it goes
through, since the automata it makes of them are others than the strings say (below).

`MCSession`, `MCPuzzleServer`, `MCVerificationBucket` and `MCPuzzleSearch` give constants their
values. `MCGrail` and `MCPrograms` do so too, and put programs that share nothing side by side in one
specification, of which one runs; the variables of the others do not move. `MCServerRace` does the same with the two
things the threads of a server race for, `new_socket` and the machines of the bucket.

The modules whose names end in `Proofs` hold the theorems.

Operators with a "mutation:" comment are small deliberate errors;
each stands before the definition it distorts, is used nowhere, and serves to show that a
property would notice: with the definition replaced by it TLC reports the property
violated (`mutants` in `PROJECT.json`).

### What the abstraction assumes

- *Both sends of a message are one step.* Header and payload stay two units, so `recv` may
  still separate them. Only two threads on one connection could interleave them, and that
  case already allows every mixture of whole messages.
- *A payload is the puzzle it is about*, or `Wrong` for an answer that is none, or
  `Unparsable` for text without its tokens. Two payloads in one buffer give more tokens than
  `array<string, 3>` holds; the write past its end is undefined behaviour, modelled as a choice
  between using either payload and failing to parse. A server's second `recv` that starts with a header
  spoils the first token, so the lookup fails (`Wrong`).
- *A `send` is not split* (all are shorter than 300 bytes) and the network loses nothing: TCP.
- *A dead peer.* `recv` returns nothing or an error, the next `send` raises SIGPIPE, nobody
  handles it: `LosePeer` takes the process down at once, without the few replies before it.
- *InitialProposal sends the text of one puzzle with the length of another* (it calls
  `getPuzzlePayload` twice); all its payloads have the same length, so the first counts.
- *An answer to another puzzle is `Wrong`* in `Session`. Digests that two preimages share, and
  a "0" that happens to be right, are the business of `PuzzleSearch`: there MyProposal accepts only the word it
  put in its bucket, InitialProposal any preimage.
- The descriptors a process may open are a `limit` picked from `Limits` at the start; `pthread_create` does not fail.
- In `PuzzleFiles` puzzles are numbers. A file is one step, written whole or, if the process is
  killed, cut short. Rebuilding with another `config.h` is part of a start.
- In `VerificationBucket` an overlap inside one `+=` or rebuild, undefined behaviour in C++,
  gets the outcome of one read and one write each. The lazy resize of the vectors is left out.
- In `Machines` the instructions are a set. The code keeps an array and removes duplicates; the one
  operation that does not (`disjoint_union` inside `shuffle`) yields the same language. Where an
  operation fails on an operand (`fmtofl` of an infinite language, an empty machine) the filter's
  own check is modelled. `nfatodfa` reads one entry before an array when a set is
  empty; the result does not depend on it.
- `min_by_partition` takes letters in increasing order, where the code takes them in the order the
  instructions first use them; everything else about it is the order of its lists, kept as it is, because the state
  that is left of a class depends on it.
- In `ParMinimise` a message is a step of the sender and one of the receiver, and there is a greatest number of processes
  `mpirun` is asked for (the other ranks are then a set known from the start); arrays of ten
  entries that the code indexes by rank are as long as needed (a hazard, not a property).
- In `Containers` the thresholds 16, 32, 64 and 64 are the constants `ARRAY_SIZE`, `max_pool`, `KeptUpTo`
  and `NearEnd`.
- In `Containers` what `intersect` reads beside an empty operand (`intersct.src:65`, `72`) is left out: it decides how early
  the empty set is returned, not what is returned.
- In `Machines` `^=` takes the start states of its right operand by their numbers, where the code takes them as its set holds
  them (`catenate.src:92`); for one start state this is the same.
- In `Filters` only operands of the kinds a filter takes are given to it, and a word is never the name of a missing file.
- In `Icdfa` the cells of `finals` nobody initialises may hold anything.

## Runs

| run | question | bounds |
|---|---|---|
| `SessionRecompute` | does every client of the first proposal get an end when sends arrive one by one? | 2 sessions, puzzles easy / at the limit / too hard, 3 retries |
| `SessionArrival` | what holds under any grouping of bytes, one client killed, one-time answers? | 2 sessions, 2 puzzles, 1 retry |
| `ServerRace` | what can late threads, mixed-up connections and overlapping calls of the bucket break? | 2 clients, 2 slots, 1 or 2 descriptors, 2 puzzles per thread, 4 units queued; 2 threads in a bucket of 3 words in 2 machines |
| `ServerPool` | do batches work for more clients than slots, and what ends the server? | 3 clients, 2 slots, 2 or 3 descriptors |
| `Programs` | are the programs around the protocol right, each on its own, and is the bucket a one-time bucket when calls do not overlap? | see below |
| `Grail` | do the automata keep the languages they stand for, through any sequence of operations? | see below |
| `SessionStaleData`, `SessionLostAnswer`, `BucketLost`, `SearchRounds`, `GrailCatenation`, `GrailMinimisation` | a comment of the code against what the code does | small |

Two sessions are enough for what sessions do to each other: they share the process and,
in MyProposal, the bucket, and both effects need one other session. Three puzzles cover the
three cases of the search (inside, exactly at, beyond the limit). One retry shows the first
retry, the last and the refusal; `MAX_RETRY` is 3 in the code and a parameter here. In the server runs the slots are two, so
that a batch fills up, and three clients so that a second batch starts; with three descriptors the server
survives them all, with two it does not. `MAX_GIVEN` and
`MAX_QUEUED` are bounds of the model only: mixed-up connections could otherwise pile up units for ever.
`ServerRace` has symmetric clients and no liveness. Two threads in the bucket are enough for each step of one call to fall between
any two of another, with two words in one machine to lose or restore and a third in the other machine.

`Programs`: the minimiser on every machine of two states over one letter, some of three, one of five
and one of seven states and one with two letters, with 2 to 4 processes, so that slices do not divide evenly
and a third worker is needed; indexes up to 5 in the list; generators for 2 x 2, 3 x 1 and 3 x 2 and drawn numbers
inside and beyond their ranges; two containers at a time of items 1 and 2, with one buffer to start with,
two in the pool and growth at the second item, so that the pool fills, empties and refuses; two puzzles
per run of the store, three runs, one torn record; totals 0 to 13 of puzzle files around every multiple of
portions 2, 4 and 5, three starts, which leave files of two earlier builds behind; texts of three
binary digits, none to three of them masked, twelve hash functions that are constant, collide in pairs
or permute, rounds drawn from 2 to 4 against a limit of 3; two threads and three words in two
machines of the bucket.

`Grail`: three machines (one deterministic with a final start state that is entered again, one
nondeterministic, one with two start states and a state that is not reached), two
expressions, two languages, one word, and a missing file, in all command lines of up to two names and
every pipe of two filters; all expressions of size up to 6 built from nine operands; all sequences of
adapter calls on three deterministic machines and two others, up to states numbered 3; buckets of up to 7 states. Languages are compared on all
words of up to four letters over two letters, longer than any of the machines started with
has states.

Deadlock is not checked where the system ends (`CHECK_DEADLOCK FALSE` in the `Session` and
`Server` runs, where everyone has finished or the process is dead, and in the runs of programs, which
end).

*Conditions.* `Arrival = "single"` (one unit per `recv`) is what happens when the peer's sends
are apart in time; `"any"` is what TCP allows. `PromptStart = TRUE` says a new thread runs before
the next connection is accepted. `Overlap = FALSE` says session threads do not meet inside
the bucket. The code guarantees none of the three; the runs that use the favourable
value show that the design works under it, and `SessionStaleData`, `ServerRace` and `BucketLost` show what is lost, or not,
without it. `MayVanish` names the clients that may be killed.

*Fairness.* Weak, per thread, per client process, for main, per rank of the minimiser and for a
server that is starting: the operating system
schedules every runnable thread or process, `recv` and `MPI_Recv` return once bytes are there, the search for an answer
ends. No action is favoured over another of the same process, a client need not vanish, nobody has to start
a server or use a library. `FullFairSpec` of `PuzzleServer` asks this of clients too.

## What the runs show

Under any grouping of bytes each verdict is about the puzzle last sent, the resource goes
only to a client that had an answer accepted, the bucket keeps nothing that is not owed (but for puzzles no client can solve),
no client hangs, the two ends never wait for each other, and every session is a session of `PuzzleGate`. Even two threads on one
connection do not serve someone who has not paid, and calls of the bucket that overlap, whatever they lose, put no word
into a machine that was not handed out with its index. A server that listens has loaded exactly what it made,
unless the total is less than one portion, in which case it faults on the first puzzle; a portion below four or a missing
directory keeps it from listening at all. The search finds what there is, the server accepts it, and
"0" is taken for an answer only by MyProposal and only if the masked digit was 0. Records of the puzzle file stay paired
as long as none was torn. The generator skips no string and repeats none.

The minimiser's ranks never mispair a message, and rank 0 either prints the coarsest partition
or waits for a rank that has left: `MasterStopsOrIsDeserted` is as much as can be said, because ranks test only
their own slice for changes (`parMPI.cpp:660-674`). The library's operations keep their languages but for six
exemptions, named in `Exempt` of `Filters` because the code is known to fall short there: `^=` with a
start state that is entered again (finding 5), `suffix()` of a machine with unreachable states,
`shuffle()` of a nondeterministic machine whose state numbers have gaps, `complement()` of a nondeterministic machine
with letters on no path from a start state to a final one (`compment.src:36-38` promises all words over the input alphabet,
but `subset()` drops those arcs and takes the alphabet from the rest), `retofl` of an expression
that stars the empty set (the result lacks the words around it), and `fmmin` of a machine whose start state
gives way to another of its class (finding 6). The adapter's two ways of minimising agree but for that.

Six comments do not hold:

1. `hasData` is never cleared (`MyProposal/server.cpp:97`): an answer whose payload arrives on its own after one that
   did not is judged before its payload is read; the parser gets the rest of the old one, and `stoi` ends the server
   (`SessionStaleData`). The client has the same flag and can die of it in the same way.
2. Two clients can hold the same puzzle; the first answer makes the second one wrong
   (`SessionLostAnswer`).
3. Rounds go up to `MIN_ITERATIONS + MAX_ITERATIONS - 1`, the limit sent is `MAX_ITERATIONS` (`SearchRounds`).
4. The "critical section" of the bucket has no lock and loses words (`BucketLost`).
5. Catenation drops the instructions of the right operand's start state when it has no self-loop, though another state may lead
   back to it, and loses words (`GrailCatenation`).
6. `min_by_partition` "minimizes the fm", but may let another state of its class represent the start state
   (`minbyp.src:436`): instructions to the start state are led to that one, the start state stays and is no
   longer final. From four states on the result may have one state too many, from five on it may lose the
   empty word (`GrailMinimisation`).

Also seen while reading, and stated by no run: a finished thread's slot waits for the whole batch although
a comment speaks of older threads (`server.cpp:250`, a consequence of the join at 253); the order of
the kinds of expressions is the reverse of what `re.h:65` says; `empty_string` does not override
`contains_empty_string`; `array -= array` removes one duplicate only; `NFA`'s `cross()` puts its first operand in
both places (`nfa.cc:65`; `Adapter` has it so); `complement()` of a machine that loses letters (above). The generator takes the sink
of state *i* on letter *j* from place `i + j` of its string, which is laid out by `i * k + j` (`generator.cc:287`, `319`), so that it
hands out one automaton for several strings, and some with states that cannot be reached (three states, two letters, state 2
at place 3 only); and `generate_from_index` skips the place before each flag, which keeps what it held before
(`generator.cc:397-410`), so that a number does not decide the string alone. `Icdfa` has both as they are; `NoStringSkipped` and
`StringsAreComplete` say nothing of the automata.

## What is proved

For all values of the constants, under the named assumptions of the modules:

**Sessions** (`SessionProofs`)

- `TypeCorrect`: `Spec => []TypeOK`. The invariant is inductive as it stands; the
  work is in the streams: a chunk is a prefix, what remains of a typed stream is typed, and
  parsing a typed chunk gives a typed payload (lemmas `ChunkProperties` and those after it). That
  `retry` stays within `MAX_RETRY` and that servers only send puzzles are parts of it.
- `NobodyServedUnpaid`: `Spec => []ServedAfterAccepted`. That alone is not inductive: the
  resource is on its way before the client holds it, and it is sent because of a flag set
  earlier. `ResourceIsPaidFor` adds both: a resource on its way to a client, and a set
  `authenticated` of its thread, imply an accepted answer. The threads' connections are
  distinct and do not change in `Session`, and verdicts only grow.

**Turns of the handshake** (`SessionProofs`)

- `EndsTakeTurns`, `NobodyWaitsInVain`, `AnswersMatch`, `RetriesAreLimited`, `AnswersAreOneTime`: `[]TurnTaking`,
  `[]NoStandoff`, `[]AnswerMatchesPuzzle`, `[]RetryLimit`, `[]BucketOutstanding`. None is inductive, and one
  invariant, `Handshake`, carries them all. Each session is one of four kinds: not asked yet, owing an answer,
  passed, failed. `InTurn` lists for each kind what may be on the two streams and where both ends may be then; `Books`
  ties the verdicts to the puzzles and the counters; `Buffers` says which data buffers are empty. It covers kept data
  parts (a thread that judges an empty buffer, the solution still unread behind it) and lost clients.
  That a step leaves the other sessions alone is shown once (`Elsewhere`), so each action is looked at in its own session
  only. The branches for bytes without a header, a refused solution, a second hello and a garbled text are shown to be
  unreachable for a client of this program.
- `SessionsImplementGate`: `Spec => ImplementsGate`, from the same invariant: five actions of the thread and one of the
  client are the six actions of `PuzzleGate`, all others are stutters.
- `ServerStaysUp`: `[]ServerSurvives`, if sends arrive one by one and no client is killed; `SessionStaleData` shows what
  happens without the former.

**Server** (`PuzzleServerProofs`)

- `ServerServesThePaid`: the same for the whole server, where threads may start late and share
  a connection. `PaidServer` speaks of connections instead of threads, keeps the accepted ones in `paid`,
  and adds that a thread without a socket knows and reads nothing.
- `ThreadsHaveOwnSockets`: with prompt threads, no two running threads have one connection.
  `OnePlace` says that every connection is in one place: in the backlog, in `new_socket`, with one thread, or not made yet.
- `OnlyExhaustionKills`: `[]DeathIsExhaustion`, if threads are prompt and sends arrive one by one. The turn lemmas of
  `SessionProofs` ask only that a thread has a peer, so they serve here too. `Running` says that each thread with a
  connection is in turn and calm, that a new thread's locals are fresh, and that on a connection still to be given out
  (`Promised`) nothing but the first hello has happened. A client whose slot is used again leaves the invariant; it has
  no thread it could stop.

**Bucket** (`PuzzleProofs`)

- `BucketTypeCorrect` and `NoWordIsForged`: `[]BucketTypeOK` and `[]NoForgedWord` under every interleaving. The invariant
  `OnlyHandedOut` follows the words through a call: what a thread has read of a machine, and is going to write there, are words
  handed out with the index of that machine. That a ticket leads to the machine it was made for is `TransposeRoundTrip`: the index
  survives its scaling and shift for every coefficient and offset.
- `SerialBucketIsExact`: without overlap, `[]BucketExact`. Its invariant `SerialCalls` says for each step of
  a call what the one machine in use holds compared to the words owed.
- `SerialBucketIsOneTime`: without overlap, `Spec => ImplementsOneTime`. In the middle of a call the refinement mapping
  `Settled` is exactly the words owed (`SettledIsOwed`), so that `AddWord` issues, `Member` redeems, and the rest are stutters.

**Machines of the bucket** (`MachinesProofs`)

- `MachineIsOneTime`: `MbSpec => MachineIsBucket`, for any words. The invariant `MachineInv` says that the arcs of the bucket's
  machine lead from lower states to higher ones and that it accepts finitely many words, all of them issued. What each operation does to the
  accepted words is a lemma of its own: `TreeLanguage` (`fltofm`, whose numbering of prefixes follows a strict total order and so
  gives each its own state), `UnionLanguage` (`+=`, after which no arc leads from the one machine into the other),
  `ListsLanguage` (`fmtofl`), `MembersAreAccepted` (`member_of_language`). `fmtofl` lists what useful states are left for, so
  `TrimmedAccepts` shows that no accepting run loses a state to `reachable_fm` and `reverse`: a run with rising states is shorter than
  the machine has states, hence inside what is reached. The words are finite sequences of numbers with a greatest length, which
  is 128 in the code.

**Adapter** (`MachinesProofs`)

- `DfasStayDeterministic`: `AdapterSpec => []DfaStaysDeterministic`, for any machines in files and any sequence of calls of
  both classes. Assumed of the files (`FilesAssumption`) is that their machines are finite and that those read as DFAs are
  deterministic, as the name says: `read_dfa_file()` has its `subset()` commented out (`io.cc:18`) and checks nothing. TLC evaluates it for the machines of its runs. The machine held
  must be finite as well (`AdapterInv`): `is_deterministic()` counts states, and every operation, on which there is a lemma each, keeps it
  finite. Ten functions of `DFA` ask whether the result is deterministic and call `subset()` when it is not; `SubsetIsDeterministic` is about that
  construction. `Hopminimize()` does not ask. There `CanonicalMachine`, `CompleteMachine`, `MergedMachine` and
  `FiniteReachable` show that each of its four steps keeps a deterministic machine deterministic: the numbering meets no state twice
  (`NumberedOnce`), completing adds arcs only where there is none, and merging changes only where an arc leads, by
  the state it led to. `Numbered` is a recursive function on a list that grows until everything ahead of it has been met, so the
  lemmas are about stopping recursion in general (`StoppingRecursion`, `StoppingKeeps`).

**What machines accept** (`MachinesProofs`)

- `OperationsMean`: what `fm`'s operations do to the accepted words, of any machines with finitely many arcs between natural numbers
  (`Usual`); no length bounds the words, as one does in the runs of `Filters`. Completing, making deterministic, numbering, and leaving
  out what cannot be reached or leads nowhere change nothing; `reverse`, `unite`, `cross_product`, `plus`, `star` and `complement` do what
  they are called. `plus` accepts the least set that has the machine's words and with a word one of them behind it (`Repeats`).
  `complement` speaks of the labels left when the machine has been made deterministic, which may be fewer. `catenate`
  is right unless a start state with arcs of its own is entered from another state (`Reentered`), the condition under which
  run `GrailCatenation` shows it wrong: it drops only arcs of states that nothing leads to (`CatenateMachine`).
- `AdapterMeans`: the same for the calls of the adapter's two classes. That `NFA`'s `cross()` returns the product of its machine with
  itself, which accepts the machine's own words, is part of it (`nfa.cc:65`).
- The argument is one for all: by induction on the word (`WordInduction`), the states it leads to in the new machine are named
  in terms of those it leads to in the old ones (`LeadsByLetter`). For the subset construction and the numbering that is `SetMachine`, for
  the product `PairsAreKnown`: a pair is numbered so that it can be read off the number. `complete` decides by counting whether
  a state lacks an arc; `CompletedMachine` shows that for a deterministic machine the count tells the truth.
- Not covered here: `shuffle` and `Hopminimize`, see `ShuffleMeans` and `HopminimizeMeans` below.

**Minimal machines** (`MinimalityProofs`)

- `MinimisersAlwaysAgree`: `AdapterSpec => []MinimisersAgree`. Whatever calls built a DFA, `Hopminimize()` and reversing and
  making deterministic twice end, once useless states are dropped and the others numbered, with one and the same machine, unless the
  start state gives way (`StartGivesWay`, under which run `GrailMinimisation` shows `Hopminimize` wrong). The invariant is
  `HeldIsUsual`: the machine held has finitely many arcs between states below some bound, and a DFA's is deterministic. The agreement
  itself is a consequence of the other theorems, and of nothing that the two ways share.
- `OneCanonicalMachine`: a machine is `Minimal` if every state is reached, a final one lies ahead of every state, and no two states have the
  same words ahead of them (`Beyond`). Two such machines of one language are the same but for the names of their states
  (`OneMinimalMachine`). `canonical_numbering` goes along the list of the states met so far and never asks for a name, so it lists
  the states of both in the same order (`NumberedAlongside`) and gives them the same numbers (`CanonicalRenamed`).
- `ReversalMinimises`: `Minimal(ByReversal(m))`, with the words of `m`. In the reverse of a deterministic machine whose states are all reached
  no word lies ahead of two states (`Disjoint`); so two sets of states that `subset` keeps apart differ in a state, and with it
  in the words ahead (`SubsetIsMinimal`).
- `PartitionMinimises` and `HopminimizeMeans`: Hopcroft's partition as `min_by_partition` has it, with its lists, its queue and the
  children of each list. One split (`SplitWithSplits`) moves part of a list to a new one, and no state is lost or twice. What stays true from split to
  split and round to round (`Between`): the lists part the states and agree on being final, two lists are told apart by a word (`Partitions`);
  every list that was split with is *settled*, that is no letter leads from one list both into it and out of it, where *it* is the
  list with all that was split off since (`Family`, `Settled`); and what waits are the lists behind those (`Following`).
  Only the new one of two halves waits, and the first list stands for all non-final states. That this is enough is the last
  part of `Family`: any two lists are parted from each other by such a set. There is at most one list more than there are
  states (`ListsAreFew`), so nothing waits after the rounds that `Partition` counts (`RoundsEnd`), and then states of one list lead
  alike (`PartitionLeadsAlike`). Merging takes each state to
  the one that represents its list, an `Image` of the machine, whose states have the words ahead that those they stand for have
  (`MergedIsImage`, `ImageMeans`).
- `ShuffleMeans`: `shuffle`, and both classes' calls of it, accept the words that mix one of each machine: its places fall to
  two rising sequences of places, of which one spells the one word and the other the other (`Mixed`). This is said of machines that are
  deterministic or numbered without a gap (`Gapless`). A pair is numbered by the *number* of states, so where numbers are left out two pairs
  can be one; `canonical_numbering` leaves none out (`CanonicalIsGapless`), but returns a nondeterministic machine as it is. That case is exempt in
  `Filters`. The argument goes letter by letter: the last letter of a mixed word is the last of one of the two (`MixedByLetter`).

**Puzzle files** (`PuzzleProofs`)

- `FilesTypeCorrect`, `OnlyFreshFiles`, `AllPuzzlesOnce`, `PortionsAreWhole`, `LoaderNeedsDirectoryOnly`: all the safety
  properties of `PuzzleFiles`, for every total, portion and history of starts, from one inductive
  invariant `FilesInv`. Its heart is `Ready`: the file under each number the loader will ask for is
  the one this start wrote. `FilesWritten` ties the number of files made to the puzzles left, and
  the division lemmas show that the loader's quotient never exceeds it.

**Puzzle store** (`PuzzleProofs`)

- `StoreTypeCorrect`, `StoreReadsOnePuzzle`: reads by position return both fields of one puzzle while no
  record was torn; the invariant is `InPairs`, the fields of the file in pairs, which appending keeps and a tear breaks.

**Search** (`PuzzleProofs`)

- `SearchFindsWhatExists`, `SearchAnswerAccepted`, `SearchGuessworkRefused`: for every length, strength, digit set and
  hash function. The invariant `PassedMiss` says that no filling before the place the search has come to, in the order of the digits,
  has the digest. That a filling exists before any other is shown from well-foundedness of the order of the
  digits at the first difference; what hashing *n* times computes is never needed, only that both ends compute the same.

**Arrays of the minimiser** (`MinimiserProofs`)

- `ArrayTypeCorrect`, `ArrayIsSimple`: wherever the walk from the remembered node begins it ends at the node of its index.
  `Linked` describes the list, `PlacesKept` the remembered places, `WalkOnCourse` the walk.

**Messages of the minimiser** (`MinimiserProofs`)

- `SendsMeetReceives`: `ParSpec => []Lockstep`, for any machines and numbers of processes. `Lockstep` alone says nothing of
  where a rank is while rank 0 is elsewhere; `LockInv` lists, for each tag rank 0 sends or waits for, what a rank waits for, what
  is on the way to it and from it, and its label, which is one ahead of rank 0's as soon as it has worked out the last numbers of
  a label. A rank that left its loop too early is allowed for: what rank 0 then does is left to `MasterStopsOrIsDeserted`.

**Result of the minimiser** (`MinimiserProofs`)

- `MinimiserPrintsMinimal`: `ParSpec => []PrintsMinimal`, for any deterministic machines of two states or more and any numbers of
  processes. On top of `LockInv` the invariant `MinInv` has three parts.
  `Manned`: a job that got past the setup has all the ranks it needs.
  `DataInv` says what is in every message and every gathered slice, in terms of rank 0's numbers and label alone (`Answer`, `IsOrder`): the hash
  values, how many of them are in the rank's interval or below it, and the number of each among all. The lemmas
  are the arithmetic of the distribution: two states have one hash value exactly if their blocks and those of their sinks are the
  same (`HashesTellApart`), the intervals of the ranks cover every value (`IntervalsCover`), partial sums plus local counts are
  the places among all values (`SumIsBelow`, `NumbersOfInterval`), and the slices put together by owner are the whole (`WholeOf`).
  Hence a label is one step of a sequential refinement, whichever rank did what when.
  `PartInv` is about that refinement: states of one block agree on being final and, on the labels already done in this round, lead to one block
  of the round before; states of two blocks are told apart by a word shorter than the number of blocks. The latter
  survives a split because the number of blocks grows (`KeptGrows`) and the words by one letter (`ToldBefore`). When a round
  changed nothing the partition is closed, so the merged machine follows the one that was read letter by letter
  (`WordsAreMapped`, `FirstBehaves`). What the functions over words compute is shown from a least place where it
  would fail, so no induction over data is needed.

**Containers** (`ContainersProofs`)

- `ContainersAreSound`: `[]ContainersInv`. Every array has room for its items and a sorted flag that tells the truth; a set holds
  no item twice; no two owners (arrays, entries of the pool) have one buffer; and the heap is exactly what the pool and the live
  arrays have, which is why a buffer fresh from the heap belongs to nobody.
- `BuffersHaveOneOwner`, `SetsStaySets`: `[]OneOwner` and `[]SetsAreSets` follow. The work is in the lemmas about one array: what sorting,
  deleting, picking, uniting and searching return, for sequences of any length and every threshold.

**Generator** (`IcdfaProofs`)

- `FlagsFollowString`: `[]IcdfaInv`, the flags of an enumerating generator are the first places of its string.
- `EnumerationSkipsNothing`: `IcdfaSpec => NoStringSkipped`, for any number of states and letters. Strings are compared by their first
  places, then by their digits (`Before`). Between flags *i* and *i* + 1 no digit is above *i*; so if some digit is not yet as high as it can
  be, raising the last such and resetting those after it (`next_icdfa`) is the next string with these flags, and if all are, no string
  with these flags follows and `next_flags` gives the next flags with the lowest digits.
- `EnumerationIsComplete`: the part of `StringsAreComplete` about enumeration: `hasNext()` is true exactly as long as a string or a set
  of final states is left, and the string is one of those to be enumerated.

Only model-checked:

- all liveness, and `ENABLED`, which are beyond the prover;
- what is said of languages in `Filters` and `RegExp`, whose operators recurse over the data (of the machine operations below
  `Filters` it is proved, see `OperationsMean`, `HopminimizeMeans` and `ShuffleMeans`);
- the random part of `StringsAreComplete`: that `getSize()` counts the strings, a sum over all flags, and what `generate_from_index` draws.

## Not modelled

- *Hash values and randomness*: SHA-256 is a parameter of `PuzzleSearch`, `rand()` a choice.
- *Benchmarks* (`execute.cpp`, timing loops): sequential, and nothing depends on what they print. One of
  them passes the entry behind its array of rounds (`InitialProposal/execute.cpp:88`), so what it times is any number of rounds.
- *Cover machines and alternating automata* (`classes/fcm`, `classes/afa`, and their filters), *Moore and Mealy machines*,
  *bitmaps*, *context-free grammars*: nothing in the puzzle programs reaches them.
- *Text formats and parsing* of grail's input and output: every model starts with the value that was read.
- `fmtore`: it ends in `re::minimize`, which goes on using nodes it has freed, so that no outcome can be given.
- `flsubclose` and `fltofmmn`: undefined for one-letter alphabets and for the empty word.
- *The random generators of machines* and the option `-n` of `fmenum`.
- `RE` of `re.cc`, which wraps the calls the filters make; print and predicate wrappers of `DFA` and `NFA`.
- *Two threads inside grail at once*: outcomes of races on its static pool are undefined; `OneOwner` holds for one thread.
- *Memory that runs out, capacities beyond 65536*, and `array::unsorted()`, which nothing calls.
