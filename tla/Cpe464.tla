-------------------------------- MODULE Cpe464 --------------------------------
(***************************************************************************)
(* libcpe464 in the processes of Program3: what the environment and the    *)
(* program's options make of it in the process that starts, what a child   *)
(* of the server inherits, and which messages each of them loses.          *)
(*                                                                         *)
(* An environment variable is Unset, NotANumber or a number; a list is the *)
(* sequence of what its commas separate.  A rate is in percent.  The state *)
(* of drand48 is the seed it started from.                                 *)
(***************************************************************************)
EXTENDS Integers, SequencesExt

CONSTANTS
    Environments,   \* records [port, debug, seed, rate, drop, flip]
    Unset, NotANumber,
    Arguments,      \* of main: [count, from, to, window, buffer, rate, port],
                    \* from and to being the lengths of names
    MaxChildren,    \* bounds of the model
    MaxTime,
    MaxMsgs

\* A variable is a number or not, a list ends in what is no number; atoi and atof make
\* a number of an argument.
ASSUME Cpe464Assumption ==
    /\ \A e \in Environments :
          /\ {e.port, e.debug, e.seed, e.rate} \subseteq Int \cup {Unset, NotANumber}
          /\ e.drop # Unset => e.drop \in Seq(Int \cup {NotANumber})
          /\ e.flip # Unset => e.flip \in Seq(Int \cup {NotANumber})
    /\ \A args \in Arguments : args.rate \in Int

VARIABLES
    env,
    now,            \* time(NULL)
    program,        \* "rcopy" or "server"
    stage,          \* of its main: "start", "loaded", "initialised", "serving"
                    \* or "exited"
    portNumber,     \* the port the user gives to the server
    bound,          \* the port of the server's socket
    processes,      \* main's state of the library, and then its children's
    last            \* the message last sent: by whom, its number, its fate

vars == <<env, now, program, stage, portNumber, bound, processes, last>>

RANDOM_SEED == 10
NoMessage == [by |-> 0, msgNo |-> 0, fate |-> "none"]
-----------------------------------------------------------------------------
(* PacketManager's settings. *)

setRandSeed(p, seed) == [p EXCEPT !.seed = seed]
setErrorRate(p, rate) == [p EXCEPT !.rate = rate]
addMsgEvent_Standard(p, event) == [p EXCEPT !.constant = Append(@, event)]
addMsgEvent_Random(p, event) == [p EXCEPT !.chance = Append(@, event)]

\* The events: a drop of all messages or of those listed, a flipped byte, a count.
DropAll == [name |-> "errorDrop", all |-> TRUE, list |-> {}]
setDropSpecific(list) == [name |-> "errorDrop", all |-> FALSE, list |-> list]
FlipBits == [name |-> "errorFlipBits"]
SeqNoInfo == [name |-> "infoSeqNo"]

\* PacketManager's constructor, and the library's own variables.
PacketManager(time) ==
    [seed |-> time, rate |-> 0, debug |-> 0, msgNo |-> 0, counted |-> 0,
     constant |-> <<>>, chance |-> <<>>, nextSeed |-> RANDOM_SEED, child |-> FALSE]
-----------------------------------------------------------------------------
(* SettingsManager: the environment. *)

\* The numbers before the first item that is not one.
parser2ListLong(text) ==
    LET wrong == {i \in DOMAIN text : text[i] = NotANumber}
    IN  IF wrong = {} THEN text
        ELSE SubSeq(text, 1, (CHOOSE i \in wrong : \A j \in wrong : i <= j) - 1)

\* Negative numbers are left out.
parserLong2Uint32(longs) == {n \in ToSet(longs) : n >= 0}

\* Which variables count as set: numbers that are, and every list there is.
loadEnvData(e) ==
    {k \in {"port", "debug", "seed", "rate"} : e[k] \notin {Unset, NotANumber}}
        \cup {k \in {"drop", "flip"} : e[k] # Unset}
isSet(k) == k \in loadEnvData(env)

loadEnvData_Debug(p) == IF isSet("debug") THEN [p EXCEPT !.debug = env.debug] ELSE p
loadEnvData_SeedRand(p) == IF isSet("seed") THEN setRandSeed(p, env.seed) ELSE p
loadEnvData_ErrRate(p) == IF isSet("rate") THEN setErrorRate(p, env.rate) ELSE p

\* A list of messages to drop, or random drops if it is empty.
loadEnvData_ErrDrop(p) ==
    LET list == parserLong2Uint32(parser2ListLong(env.drop)) IN
    IF ~isSet("drop") THEN p
    ELSE IF list = {} THEN addMsgEvent_Random(p, DropAll)
    ELSE addMsgEvent_Standard(p, setDropSpecific(list))

\* Mutant: a list of messages to flip makes flips random.
loadEnvData_ErrFlip_Random(p) ==
    IF isSet("flip") THEN addMsgEvent_Random(p, FlipBits) ELSE p

\* Random flips if the list is empty; another list is not implemented.
loadEnvData_ErrFlip(p) ==
    IF isSet("flip") /\ parserLong2Uint32(parser2ListLong(env.flip)) = {}
    THEN addMsgEvent_Random(p, FlipBits) ELSE p

\* SettingsManager's constructor.
SettingsManager(p) ==
    loadEnvData_ErrFlip(loadEnvData_ErrDrop(loadEnvData_ErrRate(
        loadEnvData_SeedRand(loadEnvData_Debug(p)))))
-----------------------------------------------------------------------------
(* SettingsManager: the program's options, where the environment says nothing. *)

setUserMode_Debug(p, level) == IF isSet("debug") THEN p ELSE [p EXCEPT !.debug = level]

\* Mutant: the environment's seed is not looked for.
setUserMode_SeedRand_Always(p, seed) == setRandSeed(p, seed)

setUserMode_SeedRand(p, seed) == IF isSet("seed") THEN p ELSE setRandSeed(p, seed)
setUserMode_ErrRate(p, rate) == IF isSet("rate") THEN p ELSE setErrorRate(p, rate)

setUserMode_ErrDrop(p, isEnabled) ==
    IF isSet("drop") \/ ~isEnabled THEN p ELSE addMsgEvent_Random(p, DropAll)

setUserMode_ErrFlip(p, isEnabled) ==
    IF isSet("flip") \/ ~isEnabled THEN p ELSE addMsgEvent_Random(p, FlipBits)

\* sendErr_init with every option on, as both programs call it.
sendErr_init(p, error_rate, seedTime, nextTime) ==
    LET counting == addMsgEvent_Standard(p, SeqNoInfo)
        erring == setUserMode_ErrFlip(
                    setUserMode_ErrDrop(setUserMode_ErrRate(counting, error_rate), TRUE), TRUE)
        seeded == setUserMode_SeedRand(erring, seedTime)
    IN  setUserMode_Debug([seeded EXCEPT !.nextSeed = nextTime], 1)
-----------------------------------------------------------------------------
Init ==
    /\ env \in Environments
    /\ now = 0
    /\ program \in {"rcopy", "server"}
    /\ stage = "start"
    /\ portNumber = 0
    /\ bound = Unset
    /\ processes = <<>>
    /\ last = NoMessage

Tick ==
    /\ now < MaxTime
    /\ now' = now + 1
    /\ UNCHANGED <<env, program, stage, portNumber, bound, processes, last>>

\* The library's constructors run before main.
Load ==
    /\ stage = "start"
    /\ stage' = "loaded"
    /\ processes' = <<SettingsManager(PacketManager(now))>>
    /\ UNCHANGED <<env, now, program, portNumber, bound, last>>

\* rcopy's arguments.  atoi cuts the rate to a whole number: more than -1, less than 1.
check_args(args) ==
    /\ args.count = 8
    /\ args.from <= 1000 /\ args.to <= 1000
    /\ args.window > 0 /\ args.buffer \in 400 .. 1400
    /\ args.rate \in -99 .. 99

\* The server's arguments.  Nothing is asked of the rate.
processArgs(args) == args.count \in {2, 3}

\* Both mains: the time is read twice, and a second may pass in between.
Initialise(args) ==
    \E next \in now .. now + 1 :
        /\ next <= MaxTime
        /\ stage' = "initialised"
        /\ processes' = [processes EXCEPT ![1] = sendErr_init(@, args.rate, now, next)]
        /\ now' = next

RcopyMain ==
    /\ stage = "loaded" /\ program = "rcopy"
    /\ \E args \in Arguments :
          IF check_args(args) THEN Initialise(args)
                              ELSE stage' = "exited" /\ UNCHANGED <<processes, now>>
    /\ UNCHANGED <<env, program, portNumber, bound, last>>

ServerMain ==
    /\ stage = "loaded" /\ program = "server"
    /\ \E args \in Arguments :
          IF processArgs(args)
          THEN /\ Initialise(args)
               /\ portNumber' = IF args.count = 3 THEN args.port ELSE 0
          ELSE stage' = "exited" /\ UNCHANGED <<processes, now, portNumber>>
    /\ UNCHANGED <<env, program, bound, last>>

\* A port has 16 bits.
htons(port) == port % 65536

\* Mutant: the port of the environment is not looked for.
bindMod_Asked(port) == htons(port)

\* The server's first socket is bound to the port of the environment, if that has one;
\* atol takes what is no number for 0, which is any port.
bindMod(port) ==
    htons(IF env.port = Unset THEN port ELSE IF env.port = NotANumber THEN 0 ELSE env.port)

\* A port that is taken ends the server.
udpServerSetup ==
    /\ stage = "initialised" /\ program = "server"
    /\ \/ stage' = "serving" /\ bound' = bindMod(portNumber)
       \/ stage' = "exited" /\ UNCHANGED bound
    /\ UNCHANGED <<env, now, program, portNumber, processes, last>>

\* Mutant: the next seed is counted in the child.
forkMod_InChild ==
    /\ stage = "serving" /\ Len(processes) <= MaxChildren
    /\ LET main == processes[1]
           child == setUserMode_SeedRand([main EXCEPT !.child = TRUE], main.nextSeed)
       IN  processes' = Append(processes, [child EXCEPT !.nextSeed = @ + 1])
    /\ UNCHANGED <<env, now, program, stage, portNumber, bound, last>>

\* The server forks a child for a client; the next seed is counted before.
forkMod ==
    /\ stage = "serving" /\ Len(processes) <= MaxChildren
    /\ LET main == [processes[1] EXCEPT !.nextSeed = @ + 1]
           child == setUserMode_SeedRand([main EXCEPT !.child = TRUE], processes[1].nextSeed)
       IN  processes' = Append([processes EXCEPT ![1] = main], child)
    /\ UNCHANGED <<env, now, program, stage, portNumber, bound, last>>
-----------------------------------------------------------------------------
(* PacketManager: a message. *)

\* errorDrop::run.
Drops(event, msgNo) ==
    event.name = "errorDrop" /\ (event.all \/ msgNo \in event.list)

\* Mutant: a drop does not end the constant events.
runMsgEvents_All(p, msgNo) ==
    [dropped |-> \E i \in DOMAIN p.constant : Drops(p.constant[i], msgNo),
     counts |-> SeqNoInfo \in ToSet(p.constant)]

\* The constant events, up to a drop: whether there is one, and whether infoSeqNo ran.
runMsgEvents(p, msgNo) ==
    LET drops == {i \in DOMAIN p.constant : Drops(p.constant[i], msgNo)} IN
    [dropped |-> drops # {},
     counts |-> \E i \in DOMAIN p.constant :
                    p.constant[i] = SeqNoInfo /\ \A j \in drops : i < j]

\* The random events, of which one at most runs: if a float of drand48, which may be 0,
\* is at most the rate.
Chances(p) ==
    (IF p.rate >= 100 /\ p.chance # <<>> THEN {} ELSE {"sent"})
        \cup (IF p.rate < 0 THEN {}
              ELSE {IF event = DropAll THEN "dropped" ELSE "flipped" : event \in ToSet(p.chance)})

\* A message dropped by a constant event stays dropped.
processEvents(p, msgNo) ==
    IF runMsgEvents(p, msgNo).dropped THEN {"dropped"} ELSE Chances(p)

\* rcopy or a child of the server sends a message.
sendto_Err(i) ==
    /\ stage = (IF program = "server" THEN "serving" ELSE "initialised")
    /\ program = "server" => i > 1
    /\ processes[i].msgNo < MaxMsgs
    /\ LET msgNo == processes[i].msgNo + 1 IN
       /\ \E fate \in processEvents(processes[i], msgNo) :
             last' = [by |-> i, msgNo |-> msgNo, fate |-> fate]
       /\ processes' = [processes EXCEPT
             ![i].msgNo = msgNo,
             ![i].counted = @ + (IF runMsgEvents(processes[i], msgNo).counts THEN 1 ELSE 0)]
    /\ UNCHANGED <<env, now, program, stage, portNumber, bound>>

Next ==
    \/ Tick \/ Load \/ RcopyMain \/ ServerMain \/ udpServerSetup \/ forkMod
    \/ \E i \in DOMAIN processes : sendto_Err(i)

Spec == Init /\ [][Next]_vars
-----------------------------------------------------------------------------
Up == stage \in {"initialised", "serving"}
Children == 2 .. Len(processes)

\* The numbers a list names: those before the first item that is none.
Named(text) ==
    {text[i] : i \in {j \in DOMAIN text : text[j] # NotANumber /\ text[j] >= 0
                         /\ \A k \in 1 .. j : text[k] # NotANumber}}

\* "so any child forked will have a different seed value": unless the environment
\* sets it, no two children of a server draw from the same seed.
SiblingSeedsDiffer ==
    isSet("seed") \/
        \A i, j \in Children : i # j => processes[i].seed # processes[j].seed

\* What the environment sets has precedence, in main and in every child, over the
\* options and over the time.
EnvPrecedence ==
    \A i \in DOMAIN processes :
        /\ isSet("seed") => processes[i].seed = env.seed
        /\ isSet("rate") => processes[i].rate = env.rate
        /\ isSet("debug") => processes[i].debug = env.debug
        /\ stage = "serving" /\ isSet("port") => bound = htons(env.port)

\* Both programs ask for flips, and every process makes them unless the environment
\* lists messages to flip: that makes no flip at all.
FlipListSilences ==
    Up => \A i \in DOMAIN processes :
        FlipBits \in ToSet(processes[i].chance)
            <=> (env.flip # Unset => Named(env.flip) = {})

\* In rcopy and in every child a message on the list is dropped, by its number there,
\* whatever the random events would do, and infoSeqNo's report leaves out those
\* messages and them alone.
ListedDropped ==
    LET listed == IF env.drop = Unset THEN {} ELSE Named(env.drop) IN
    /\ last # NoMessage /\ last.msgNo \in listed => last.fate = "dropped"
    /\ Up => \A i \in DOMAIN processes :
          processes[i].counted = Cardinality((1 .. processes[i].msgNo) \ listed)
=============================================================================
