---------------------------- MODULE Cpe464_proofs ----------------------------
(***************************************************************************)
(* Proofs about Cpe464 for every environment, all arguments and any number *)
(* of children and messages.                                               *)
(***************************************************************************)
EXTENDS Cpe464, FiniteSetTheorems, SequenceTheorems, WellFoundedInduction, TLAPS

Event == [name : {"errorDrop"}, all : BOOLEAN, list : SUBSET Nat] \cup {SeqNoInfo}
Process == [seed : Int, rate : Int, debug : Int, msgNo : Nat, counted : Nat,
            constant : Seq(Event), chance : Seq({DropAll, FlipBits}),
            nextSeed : Int, child : BOOLEAN]

\* The messages that the environment lists to be dropped, and the event that does it.
Listed == IF env.drop = Unset THEN {} ELSE Named(env.drop)
ListEvent == IF Listed = {} THEN <<>> ELSE <<setDropSpecific(Listed)>>

\* What the environment sets in a process.
FromEnv(p) ==
    /\ isSet("seed") => p.seed = env.seed
    /\ isSet("rate") => p.rate = env.rate
    /\ isSet("debug") => p.debug = env.debug

\* The processes that obey it; those before main has run, and after sendErr_init.
Obeying == {p \in Process : FromEnv(p)}

Loaded == {p \in Obeying :
    /\ p.constant = ListEvent
    /\ FlipBits \in ToSet(p.chance) <=> env.flip # Unset /\ Named(env.flip) = {}
    /\ p.msgNo = 0 /\ p.counted = 0}

InUse == {p \in Obeying :
    /\ p.constant = Append(ListEvent, SeqNoInfo)
    /\ FlipBits \in ToSet(p.chance) <=> (env.flip # Unset => Named(env.flip) = {})
    /\ p.counted = Cardinality((1 .. p.msgNo) \ Listed)}

StageInv ==
    /\ env \in Environments /\ now \in Nat
    /\ stage \in {"start", "loaded", "initialised", "serving", "exited"}
    /\ processes \in Seq(Process)
    /\ stage = "start" <=> processes = <<>>
    /\ stage # "serving" => Len(processes) <= 1
    /\ stage = "loaded" => processes[1] \in Loaded
    /\ Up => \A i \in DOMAIN processes : processes[i] \in InUse
    /\ stage = "serving" /\ isSet("port") => bound = htons(env.port)

\* The seeds of the children are below the one that the next child will get.
SeedInv ==
    isSet("seed") \/
        \A i \in Children :
            /\ processes[i].seed < processes[1].nextSeed
            /\ \A j \in Children : i # j => processes[i].seed # processes[j].seed

LastInv == last # NoMessage /\ last.msgNo \in Listed => last.fate = "dropped"

IInv ==
    /\ StageInv /\ SeedInv /\ LastInv
    /\ \A i \in DOMAIN processes : processes[i] \in Obeying
-----------------------------------------------------------------------------
LEMMA Smallest ==
    ASSUME NEW T, T \subseteq Nat, T # {}
    PROVE  \E x \in T : \A y \in T : x <= y
  <1> DEFINE R == OpToRel(<, Nat)
  <1>1. IsWellFoundedOn(R, Nat)
    BY NatLessThanWellFounded
  <1>2. PICK x \in T : \A y \in T : ~(<<y, x>> \in R)
    <2> HIDE DEF R
    <2> QED
      BY <1>1, WFMin, Zenon
  <1>3. \A y \in T : <<y, x>> \in R <=> y < x
    BY DEF OpToRel
  <1>4. \A y \in T : x \in Nat /\ y \in Nat
    OBVIOUS
  <1>5. \A y \in T : ~(y < x)
    BY <1>2, <1>3
  <1>6. \A y \in T : x <= y
    BY <1>4, <1>5
  <1> QED
    BY <1>6

\* What parser2ListLong and parserLong2Uint32 keep of a list are the numbers that the
\* list names.
LEMMA ParserFindsNamed ==
    ASSUME NEW text \in Seq(Int \cup {NotANumber})
    PROVE  /\ parserLong2Uint32(parser2ListLong(text)) = Named(text)
           /\ Named(text) \subseteq Nat
  <1> DEFINE wrong == {i \in DOMAIN text : text[i] = NotANumber}
  <1>0. DOMAIN text = 1 .. Len(text) /\ Len(text) \in Nat
    OBVIOUS
  <1>1. CASE wrong = {}
    <2>1. parser2ListLong(text) = text
      BY <1>1 DEF parser2ListLong
    <2>2. \A i \in DOMAIN text : text[i] \in Int /\ text[i] # NotANumber
      BY <1>1
    <2>3. ToSet(text) = {text[i] : i \in DOMAIN text}
      BY DEF ToSet
    <2>4. \A i \in DOMAIN text : \A k \in 1 .. i : k \in DOMAIN text
      BY <1>0
    <2>5. \A n : n \in Named(text) <=> \E i \in DOMAIN text : n = text[i] /\ n >= 0
      BY <2>2, <2>4 DEF Named
    <2> QED
      BY <2>1, <2>2, <2>3, <2>5 DEF parserLong2Uint32
  <1>2. CASE wrong # {}
    <2> DEFINE first == CHOOSE i \in wrong : \A j \in wrong : i <= j
    <2>1. first \in wrong /\ \A j \in wrong : first <= j
      <3>1. wrong \subseteq Nat
        BY <1>0
      <3>2. \E i \in wrong : \A j \in wrong : i <= j
        BY <1>2, <3>1, Smallest
      <3> QED
        BY <3>2
    <2>2. parser2ListLong(text) = SubSeq(text, 1, first - 1)
      BY <1>2 DEF parser2ListLong
    <2> HIDE DEF first
    <2>3. first \in 1 .. Len(text) /\ text[first] = NotANumber
      BY <1>0, <2>1
    <2>4. \A i \in 1 .. first - 1 : i \in DOMAIN text /\ text[i] # NotANumber /\ text[i] \in Int
      BY <1>0, <2>1, <2>3
    <2> DEFINE s == SubSeq(text, 1, first - 1)
    <2>5. s \in Seq(Int) /\ Len(s) = first - 1 /\ \A i \in 1 .. first - 1 : s[i] = text[i]
      BY <1>0, <2>3, <2>4, SubSeqProperties
    <2>6. \A n : n \in ToSet(s) <=> \E i \in 1 .. first - 1 : n = text[i]
      <3>1. DOMAIN s = 1 .. first - 1
        BY <2>3, <2>5
      <3> HIDE DEF s
      <3> QED
        BY <2>5, <3>1 DEF ToSet
    <2>7. \A i \in DOMAIN text : (\A k \in 1 .. i : text[k] # NotANumber) <=> i \in 1 .. first - 1
      BY <1>0, <2>3, <2>4
    <2>8. \A n : n \in Named(text) <=> \E i \in 1 .. first - 1 : n = text[i] /\ n >= 0
      BY <2>4, <2>7 DEF Named
    <2> HIDE DEF s
    <2>9. parser2ListLong(text) = s
      BY <2>2 DEF s
    <2> QED
      BY <2>4, <2>6, <2>8, <2>9 DEF parserLong2Uint32
  <1> QED
    BY <1>1, <1>2

LEMMA AppendAdds ==
    ASSUME NEW S, NEW s \in Seq(S), NEW e \in S
    PROVE  ToSet(Append(s, e)) = ToSet(s) \cup {e}
  <1>1. /\ DOMAIN s = 1 .. Len(s) /\ Len(s) \in Nat
        /\ DOMAIN Append(s, e) = 1 .. Len(s) + 1
        /\ \A i \in 1 .. Len(s) : Append(s, e)[i] = s[i]
        /\ Append(s, e)[Len(s) + 1] = e
    OBVIOUS
  <1> QED
    BY <1>1 DEF ToSet

LEMMA ListedTypes ==
    ASSUME env \in Environments
    PROVE  /\ Listed \subseteq Nat
           /\ ListEvent \in Seq(Event)
           /\ SeqNoInfo \in Event
           /\ env.flip # Unset => Named(env.flip) \subseteq Nat
           /\ env.drop # Unset =>
                 parserLong2Uint32(parser2ListLong(env.drop)) = Listed
           /\ env.flip # Unset =>
                 parserLong2Uint32(parser2ListLong(env.flip)) = Named(env.flip)
  <1>1. /\ env.drop # Unset => env.drop \in Seq(Int \cup {NotANumber})
        /\ env.flip # Unset => env.flip \in Seq(Int \cup {NotANumber})
    BY Cpe464Assumption
  <1>2. Listed \subseteq Nat
    BY <1>1, ParserFindsNamed DEF Listed
  <1>3. setDropSpecific(Listed) \in Event
    BY <1>2 DEF setDropSpecific, Event
  <1>4. ListEvent \in Seq(Event)
    BY <1>3 DEF ListEvent
  <1> QED
    BY <1>1, <1>2, <1>4, ParserFindsNamed DEF Listed, Event

\* A number among the settings is set, and nothing else changes.
SameOthers(p, q) ==
    /\ q \in Process /\ q.msgNo = p.msgNo /\ q.counted = p.counted
    /\ q.constant = p.constant /\ q.chance = p.chance /\ q.child = p.child

setDebug(p, level) == [p EXCEPT !.debug = level]
setNextSeed(p, seed) == [p EXCEPT !.nextSeed = seed]

LEMMA SettingSet ==
    ASSUME NEW p \in Process, NEW x \in Int
    PROVE  /\ SameOthers(p, setRandSeed(p, x)) /\ setRandSeed(p, x).seed = x
           /\ setRandSeed(p, x).rate = p.rate /\ setRandSeed(p, x).debug = p.debug
           /\ SameOthers(p, setErrorRate(p, x)) /\ setErrorRate(p, x).rate = x
           /\ setErrorRate(p, x).seed = p.seed /\ setErrorRate(p, x).debug = p.debug
           /\ SameOthers(p, setDebug(p, x)) /\ setDebug(p, x).debug = x
           /\ setDebug(p, x).seed = p.seed /\ setDebug(p, x).rate = p.rate
           /\ SameOthers(p, setNextSeed(p, x)) /\ setNextSeed(p, x).seed = p.seed
           /\ setNextSeed(p, x).rate = p.rate /\ setNextSeed(p, x).debug = p.debug
  <1>1. PICK constants, chances :
            Process = [seed : Int, rate : Int, debug : Int, msgNo : Nat, counted : Nat,
                       constant : constants, chance : chances, nextSeed : Int,
                       child : BOOLEAN]
    BY DEF Process
  <1>2. /\ SameOthers(p, setRandSeed(p, x)) /\ setRandSeed(p, x).seed = x
        /\ setRandSeed(p, x).rate = p.rate /\ setRandSeed(p, x).debug = p.debug
    BY <1>1 DEF SameOthers, setRandSeed
  <1>3. /\ SameOthers(p, setErrorRate(p, x)) /\ setErrorRate(p, x).rate = x
        /\ setErrorRate(p, x).seed = p.seed /\ setErrorRate(p, x).debug = p.debug
    BY <1>1 DEF SameOthers, setErrorRate
  <1>4. /\ SameOthers(p, setDebug(p, x)) /\ setDebug(p, x).debug = x
        /\ setDebug(p, x).seed = p.seed /\ setDebug(p, x).rate = p.rate
    BY <1>1 DEF SameOthers, setDebug
  <1>5. /\ SameOthers(p, setNextSeed(p, x)) /\ setNextSeed(p, x).seed = p.seed
        /\ setNextSeed(p, x).rate = p.rate /\ setNextSeed(p, x).debug = p.debug
    BY <1>1 DEF SameOthers, setNextSeed
  <1> QED
    BY <1>2, <1>3, <1>4, <1>5

\* The settings that hold for a process are kept when an event is added.
SameSettings(p, q) ==
    /\ q \in Process
    /\ q.seed = p.seed /\ q.rate = p.rate /\ q.debug = p.debug /\ q.msgNo = p.msgNo
    /\ q.counted = p.counted /\ q.nextSeed = p.nextSeed /\ q.child = p.child

LEMMA RandomAdded ==
    ASSUME NEW p \in Process, NEW e \in {DropAll, FlipBits}
    PROVE  /\ SameSettings(p, addMsgEvent_Random(p, e))
           /\ addMsgEvent_Random(p, e).constant = p.constant
           /\ addMsgEvent_Random(p, e).chance = Append(p.chance, e)
           /\ FlipBits \in ToSet(addMsgEvent_Random(p, e).chance)
                 <=> FlipBits \in ToSet(p.chance) \/ e = FlipBits
  <1>1. p.chance \in Seq({DropAll, FlipBits})
    BY DEF Process
  <1>2. ToSet(Append(p.chance, e)) = ToSet(p.chance) \cup {e}
    BY <1>1, AppendAdds
  <1>3. Append(p.chance, e) \in Seq({DropAll, FlipBits})
    BY <1>1
  <1>4. addMsgEvent_Random(p, e) = [p EXCEPT !.chance = Append(p.chance, e)]
    BY DEF addMsgEvent_Random
  <1>5. addMsgEvent_Random(p, e).chance = Append(p.chance, e)
    BY <1>4 DEF Process
  <1>6. SameSettings(p, addMsgEvent_Random(p, e)) /\ addMsgEvent_Random(p, e).constant = p.constant
    BY <1>3, <1>4 DEF SameSettings, Process
  <1> QED
    BY <1>2, <1>5, <1>6

LEMMA StandardAdded ==
    ASSUME NEW p \in Process, NEW e \in Event
    PROVE  /\ SameSettings(p, addMsgEvent_Standard(p, e))
           /\ addMsgEvent_Standard(p, e).chance = p.chance
           /\ addMsgEvent_Standard(p, e).constant = Append(p.constant, e)
  <1>1. Append(p.constant, e) \in Seq(Event)
    BY DEF Process
  <1> QED
    BY <1>1 DEF addMsgEvent_Standard, SameSettings, Process

\* The constructors, which run before main, make a process what the environment says.
LEMMA LoadedByEnvironment ==
    ASSUME env \in Environments, NEW t \in Nat
    PROVE  SettingsManager(PacketManager(t)) \in Loaded
  <1> DEFINE p0 == PacketManager(t)
             p1 == loadEnvData_Debug(p0)
             p2 == loadEnvData_SeedRand(p1)
             p3 == loadEnvData_ErrRate(p2)
             p4 == loadEnvData_ErrDrop(p3)
             p5 == loadEnvData_ErrFlip(p4)
  <1>1. /\ p0 \in Process /\ p0.msgNo = 0 /\ p0.counted = 0
        /\ p0.constant = <<>> /\ p0.chance = <<>>
    BY DEF PacketManager, Process, RANDOM_SEED
  <1> HIDE DEF p0
  <1>2. /\ isSet("debug") => env.debug \in Int
        /\ isSet("seed") => env.seed \in Int
        /\ isSet("rate") => env.rate \in Int
    BY Cpe464Assumption DEF isSet, loadEnvData
  <1>3. /\ p1 \in Process /\ p1.msgNo = 0 /\ p1.counted = 0
        /\ p1.constant = <<>> /\ p1.chance = <<>>
        /\ isSet("debug") => p1.debug = env.debug
    BY <1>1, <1>2 DEF loadEnvData_Debug, Process
  <1> HIDE DEF p1
  <1>4. /\ p2 \in Process /\ p2.msgNo = 0 /\ p2.counted = 0
        /\ p2.constant = <<>> /\ p2.chance = <<>>
        /\ isSet("debug") => p2.debug = env.debug
        /\ isSet("seed") => p2.seed = env.seed
    BY <1>2, <1>3 DEF loadEnvData_SeedRand, setRandSeed, Process
  <1> HIDE DEF p2
  <1>5. /\ p3 \in Process /\ p3.msgNo = 0 /\ p3.counted = 0
        /\ p3.constant = <<>> /\ p3.chance = <<>>
        /\ FromEnv(p3)
    BY <1>2, <1>4 DEF loadEnvData_ErrRate, setErrorRate, Process, FromEnv
  <1> HIDE DEF p3
  <1>6. /\ p4 \in Process /\ p4.msgNo = 0 /\ p4.counted = 0
        /\ p4.constant = ListEvent /\ FlipBits \notin ToSet(p4.chance)
        /\ FromEnv(p4)
    <2>1. ToSet(p3.chance) = {}
      BY <1>5 DEF ToSet
    <2>2. DropAll # FlipBits
      BY DEF DropAll, FlipBits
    <2>3. CASE env.drop = Unset
      <3>1. p4 = p3
        BY <2>3 DEF loadEnvData_ErrDrop, isSet, loadEnvData
      <3> QED
        BY <1>5, <2>1, <2>3, <3>1 DEF ListEvent, Listed
    <2>4. CASE env.drop # Unset /\ Listed = {}
      <3>1. p4 = addMsgEvent_Random(p3, DropAll)
        BY <2>4, ListedTypes DEF loadEnvData_ErrDrop, isSet, loadEnvData
      <3> QED
        BY <1>5, <2>1, <2>2, <2>4, <3>1, RandomAdded DEF SameSettings, ListEvent, FromEnv
    <2>5. CASE env.drop # Unset /\ Listed # {}
      <3>1. p4 = addMsgEvent_Standard(p3, setDropSpecific(Listed))
        BY <2>5, ListedTypes DEF loadEnvData_ErrDrop, isSet, loadEnvData
      <3>2. setDropSpecific(Listed) \in Event
        BY ListedTypes DEF setDropSpecific, Event
      <3>3. p4.constant = Append(<<>>, setDropSpecific(Listed)) /\ p4.chance = <<>>
            /\ SameSettings(p3, p4)
        BY <1>5, <3>1, <3>2, StandardAdded
      <3>4. p4.constant = ListEvent
        BY <2>5, <3>2, <3>3 DEF ListEvent
      <3> QED
        BY <1>5, <2>1, <3>3, <3>4 DEF SameSettings, FromEnv
    <2> QED
      BY <2>3, <2>4, <2>5
  <1> HIDE DEF p4
  <1>7. /\ p5 \in Process /\ p5.msgNo = 0 /\ p5.counted = 0
        /\ p5.constant = ListEvent /\ FromEnv(p5)
        /\ FlipBits \in ToSet(p5.chance) <=> env.flip # Unset /\ Named(env.flip) = {}
    <2>1. CASE env.flip # Unset /\ Named(env.flip) = {}
      <3>1. p5 = addMsgEvent_Random(p4, FlipBits)
        BY <2>1, ListedTypes DEF loadEnvData_ErrFlip, isSet, loadEnvData
      <3> QED
        BY <1>6, <2>1, <3>1, RandomAdded DEF SameSettings, FromEnv
    <2>2. CASE ~(env.flip # Unset /\ Named(env.flip) = {})
      <3>1. p5 = p4
        BY <2>2, ListedTypes DEF loadEnvData_ErrFlip, isSet, loadEnvData
      <3> QED
        BY <1>6, <2>2, <3>1
    <2> QED
      BY <2>1, <2>2
  <1> HIDE DEF p5
  <1>8. SettingsManager(PacketManager(t)) = p5
    BY DEF SettingsManager, p0, p1, p2, p3, p4, p5
  <1> QED
    BY <1>7, <1>8 DEF Loaded, Obeying

\* A process that sendErr_init is working on: it obeys the environment and has counted no
\* message yet.
Begun(p) ==
    /\ p \in Process /\ FromEnv(p)
    /\ p.msgNo = 0 /\ p.counted = 0
    /\ p.constant = Append(ListEvent, SeqNoInfo)

LEMMA StillBegun ==
    ASSUME NEW p, Begun(p), NEW q, SameOthers(p, q),
           isSet("seed") => q.seed = p.seed, isSet("rate") => q.rate = p.rate,
           isSet("debug") => q.debug = p.debug
    PROVE  Begun(q) /\ q.chance = p.chance
  <1>1. q \in Process /\ q.msgNo = 0 /\ q.counted = 0 /\ q.constant = Append(ListEvent, SeqNoInfo)
        /\ q.chance = p.chance
    BY DEF Begun, SameOthers
  <1>2. FromEnv(p)
    BY DEF Begun
  <1>3. FromEnv(q)
    BY <1>2 DEF FromEnv
  <1> QED
    BY <1>1, <1>3 DEF Begun

\* Setting a number that the environment leaves open keeps a process so, and its events.
LEMMA SettingKeeps ==
    ASSUME NEW p, Begun(p), NEW x \in Int
    PROVE  /\ Begun(setUserMode_SeedRand(p, x)) /\ setUserMode_SeedRand(p, x).chance = p.chance
           /\ Begun(setUserMode_ErrRate(p, x)) /\ setUserMode_ErrRate(p, x).chance = p.chance
           /\ Begun(setUserMode_Debug(p, x)) /\ setUserMode_Debug(p, x).chance = p.chance
           /\ Begun(setNextSeed(p, x)) /\ setNextSeed(p, x).chance = p.chance
  <1>1. p \in Process
    BY DEF Begun
  <1>2. Begun(setUserMode_SeedRand(p, x)) /\ setUserMode_SeedRand(p, x).chance = p.chance
    <2> DEFINE q == setRandSeed(p, x)
    <2>1. SameOthers(p, q) /\ q.rate = p.rate /\ q.debug = p.debug
      BY <1>1, SettingSet
    <2> HIDE DEF q
    <2>2. CASE isSet("seed")
      BY <2>2 DEF setUserMode_SeedRand
    <2>3. CASE ~isSet("seed")
      <3>1. setUserMode_SeedRand(p, x) = q
        BY <2>3 DEF setUserMode_SeedRand, q
      <3>2. Begun(q) /\ q.chance = p.chance
        BY <2>1, <2>3, StillBegun
      <3> QED
        BY <3>1, <3>2
    <2> QED
      BY <2>2, <2>3
  <1>3. Begun(setUserMode_ErrRate(p, x)) /\ setUserMode_ErrRate(p, x).chance = p.chance
    <2> DEFINE q == setErrorRate(p, x)
    <2>1. SameOthers(p, q) /\ q.seed = p.seed /\ q.debug = p.debug
      BY <1>1, SettingSet
    <2> HIDE DEF q
    <2>2. CASE isSet("rate")
      BY <2>2 DEF setUserMode_ErrRate
    <2>3. CASE ~isSet("rate")
      <3>1. setUserMode_ErrRate(p, x) = q
        BY <2>3 DEF setUserMode_ErrRate, q
      <3>2. Begun(q) /\ q.chance = p.chance
        BY <2>1, <2>3, StillBegun
      <3> QED
        BY <3>1, <3>2
    <2> QED
      BY <2>2, <2>3
  <1>4. Begun(setUserMode_Debug(p, x)) /\ setUserMode_Debug(p, x).chance = p.chance
    <2> DEFINE q == setDebug(p, x)
    <2>1. SameOthers(p, q) /\ q.seed = p.seed /\ q.rate = p.rate
      BY <1>1, SettingSet
    <2> HIDE DEF q
    <2>2. CASE isSet("debug")
      BY <2>2 DEF setUserMode_Debug
    <2>3. CASE ~isSet("debug")
      <3>1. setUserMode_Debug(p, x) = q
        BY <2>3 DEF setUserMode_Debug, setDebug, q
      <3>2. Begun(q) /\ q.chance = p.chance
        BY <2>1, <2>3, StillBegun
      <3> QED
        BY <3>1, <3>2
    <2> QED
      BY <2>2, <2>3
  <1>5. Begun(setNextSeed(p, x)) /\ setNextSeed(p, x).chance = p.chance
    <2> DEFINE q == setNextSeed(p, x)
    <2>1. SameOthers(p, q) /\ q.seed = p.seed /\ q.rate = p.rate /\ q.debug = p.debug
      BY <1>1, SettingSet
    <2> HIDE DEF q
    <2>2. Begun(q) /\ q.chance = p.chance
      BY <2>1, StillBegun
    <2> QED
      BY <2>2 DEF q
  <1> QED
    BY <1>2, <1>3, <1>4, <1>5

\* So does an event of chance.
LEMMA EventKeeps ==
    ASSUME NEW p, Begun(p), NEW e \in {DropAll, FlipBits}
    PROVE  /\ Begun(addMsgEvent_Random(p, e))
           /\ FlipBits \in ToSet(addMsgEvent_Random(p, e).chance)
                 <=> FlipBits \in ToSet(p.chance) \/ e = FlipBits
  <1> DEFINE q == addMsgEvent_Random(p, e)
  <1>1. p \in Process
    BY DEF Begun
  <1>2. /\ SameSettings(p, q) /\ q.constant = p.constant
        /\ FlipBits \in ToSet(q.chance) <=> FlipBits \in ToSet(p.chance) \/ e = FlipBits
    BY <1>1, RandomAdded
  <1> HIDE DEF q
  <1>3. Begun(q)
    BY <1>2 DEF Begun, SameSettings, FromEnv
  <1> QED
    BY <1>2, <1>3 DEF q

\* sendErr_init adds what the environment leaves open, and the counting of messages.
LEMMA InitialisedByOptions ==
    ASSUME env \in Environments, NEW p \in Loaded, NEW rate \in Int, NEW seedTime \in Nat,
           NEW nextTime \in Nat
    PROVE  sendErr_init(p, rate, seedTime, nextTime) \in InUse
  <1> DEFINE p1 == addMsgEvent_Standard(p, SeqNoInfo)
             p2 == setUserMode_ErrRate(p1, rate)
             p3 == setUserMode_ErrDrop(p2, TRUE)
             p4 == setUserMode_ErrFlip(p3, TRUE)
             p5 == setUserMode_SeedRand(p4, seedTime)
             p6 == setNextSeed(p5, nextTime)
             p7 == setUserMode_Debug(p6, 1)
  <1>0. DropAll # FlipBits /\ seedTime \in Int /\ nextTime \in Int /\ 1 \in Int
    BY DEF DropAll, FlipBits
  <1>1. Begun(p1) /\ p1.chance = p.chance
    <2>1. /\ p \in Process /\ FromEnv(p) /\ p.constant = ListEvent
          /\ p.msgNo = 0 /\ p.counted = 0
      BY DEF Loaded, Obeying
    <2>2. SeqNoInfo \in Event
      BY ListedTypes
    <2>3. SameSettings(p, p1) /\ p1.chance = p.chance /\ p1.constant = Append(p.constant, SeqNoInfo)
      BY <2>1, <2>2, StandardAdded
    <2> HIDE DEF p1
    <2> QED
      BY <2>1, <2>3 DEF SameSettings, FromEnv, Begun
  <1> HIDE DEF p1
  <1>2. Begun(p2) /\ p2.chance = p1.chance
    BY <1>1, SettingKeeps
  <1> HIDE DEF p2
  <1>3. Begun(p3) /\ (FlipBits \in ToSet(p3.chance) <=> FlipBits \in ToSet(p2.chance))
    <2>1. CASE isSet("drop")
      <3>1. p3 = p2
        BY <2>1 DEF setUserMode_ErrDrop
      <3> QED
        BY <1>2, <3>1
    <2>2. CASE ~isSet("drop")
      <3>1. p3 = addMsgEvent_Random(p2, DropAll)
        BY <2>2 DEF setUserMode_ErrDrop
      <3> QED
        BY <1>0, <1>2, <3>1, EventKeeps
    <2> QED
      BY <2>1, <2>2
  <1> HIDE DEF p3
  <1>4. /\ Begun(p4)
        /\ FlipBits \in ToSet(p4.chance) <=> FlipBits \in ToSet(p3.chance) \/ ~isSet("flip")
    <2>1. CASE isSet("flip")
      <3>1. p4 = p3
        BY <2>1 DEF setUserMode_ErrFlip
      <3> QED
        BY <1>3, <2>1, <3>1
    <2>2. CASE ~isSet("flip")
      <3>1. p4 = addMsgEvent_Random(p3, FlipBits)
        BY <2>2 DEF setUserMode_ErrFlip
      <3> QED
        BY <1>3, <2>2, <3>1, EventKeeps
    <2> QED
      BY <2>1, <2>2
  <1> HIDE DEF p4
  <1>5. Begun(p5) /\ p5.chance = p4.chance
    BY <1>0, <1>4, SettingKeeps
  <1> HIDE DEF p5
  <1>6. Begun(p6) /\ p6.chance = p5.chance
    BY <1>0, <1>5, SettingKeeps
  <1> HIDE DEF p6
  <1>7. Begun(p7) /\ p7.chance = p6.chance
    BY <1>0, <1>6, SettingKeeps
  <1> HIDE DEF p7
  <1>8. sendErr_init(p, rate, seedTime, nextTime) = p7
    BY DEF sendErr_init, setNextSeed, p1, p2, p3, p4, p5, p6, p7
  <1>9. FlipBits \in ToSet(p7.chance) <=> (env.flip # Unset => Named(env.flip) = {})
    <2>1. isSet("flip") <=> env.flip # Unset
      BY DEF isSet, loadEnvData
    <2>2. FlipBits \in ToSet(p.chance) <=> env.flip # Unset /\ Named(env.flip) = {}
      BY DEF Loaded
    <2>3. p7.chance = p4.chance /\ p2.chance = p.chance
      BY <1>1, <1>2, <1>5, <1>6, <1>7
    <2> QED
      BY <1>3, <1>4, <2>1, <2>2, <2>3
  <1>10. p7.counted = Cardinality((1 .. p7.msgNo) \ Listed)
    <2>1. p7.msgNo = 0 /\ p7.counted = 0
      BY <1>7 DEF Begun
    <2>2. (1 .. p7.msgNo) \ Listed = {}
      BY <2>1
    <2> QED
      BY <2>1, <2>2, FS_EmptySet
  <1>11. p7 \in Process /\ FromEnv(p7) /\ p7.constant = Append(ListEvent, SeqNoInfo)
    BY <1>7 DEF Begun
  <1>12. p7 \in InUse
    BY <1>9, <1>10, <1>11 DEF InUse, Obeying
  <1> QED
    BY <1>8, <1>12

\* In a process that main has initialised a message is dropped by a constant event if
\* and only if it is listed, and it is counted if and only if it is not.
LEMMA ListedIsDropped ==
    ASSUME env \in Environments, NEW p \in InUse, NEW n \in Nat
    PROVE  /\ runMsgEvents(p, n).dropped <=> n \in Listed
           /\ runMsgEvents(p, n).counts <=> n \notin Listed
  <1> DEFINE drops == {i \in DOMAIN p.constant : Drops(p.constant[i], n)}
             counts == \E i \in DOMAIN p.constant :
                          p.constant[i] = SeqNoInfo /\ \A j \in drops : i < j
  <1>1. p.constant = Append(ListEvent, SeqNoInfo)
    BY DEF InUse, Obeying
  <1>2. ~Drops(SeqNoInfo, n)
    BY DEF Drops, SeqNoInfo
  <1>3. CASE Listed = {}
    <2>1. p.constant = <<SeqNoInfo>>
      BY <1>1, <1>3 DEF ListEvent
    <2>2. DOMAIN p.constant = {1} /\ p.constant[1] = SeqNoInfo
      BY <2>1
    <2>3. drops = {}
      BY <1>2, <2>2
    <2>4. counts
      BY <2>2, <2>3
    <2> QED
      BY <1>3, <2>3, <2>4 DEF runMsgEvents
  <1>4. CASE Listed # {}
    <2> DEFINE event == setDropSpecific(Listed)
    <2>1. ListEvent = <<event>> /\ ListEvent \in Seq(Event) /\ SeqNoInfo \in Event
      BY <1>4, ListedTypes DEF ListEvent
    <2>2. /\ DOMAIN p.constant = {1, 2}
          /\ p.constant[1] = event /\ p.constant[2] = SeqNoInfo
      <3> HIDE DEF event
      <3>1. Len(ListEvent) = 1 /\ ListEvent[1] = event
        BY <2>1
      <3>2. /\ p.constant \in Seq(Event) /\ Len(p.constant) = 2
            /\ p.constant[1] = event /\ p.constant[2] = SeqNoInfo
        BY <1>1, <2>1, <3>1, AppendProperties
      <3> QED
        BY <3>2
    <2>3. Drops(event, n) <=> n \in Listed
      BY DEF Drops, setDropSpecific
    <2>4. event # SeqNoInfo
      BY DEF setDropSpecific, SeqNoInfo
    <2>5. drops = IF n \in Listed THEN {1} ELSE {}
      BY <1>2, <2>2, <2>3
    <2>6. counts <=> n \notin Listed
      BY <2>2, <2>4, <2>5
    <2> QED
      BY <2>5, <2>6 DEF runMsgEvents
  <1> QED
    BY <1>3, <1>4

\* So the report of a process stays right when it sends a message.
LEMMA SentMessage ==
    ASSUME env \in Environments, NEW p \in InUse,
           NEW n, n = p.msgNo + 1,
           NEW c, c = p.counted + (IF runMsgEvents(p, n).counts THEN 1 ELSE 0)
    PROVE  [p EXCEPT !.msgNo = n, !.counted = c] \in InUse
  <1> DEFINE q == [p EXCEPT !.msgNo = n, !.counted = c]
             before == (1 .. p.msgNo) \ Listed
             after == (1 .. n) \ Listed
  <1>1. p \in Process /\ p.msgNo \in Nat /\ p.counted \in Nat /\ n \in Nat
    BY DEF InUse, Obeying, Process
  <1>2. IsFiniteSet(before) /\ n \notin before
    <2>1. IsFiniteSet(1 .. p.msgNo)
      BY <1>1, FS_Interval
    <2> QED
      BY <1>1, <2>1, FS_Subset
  <1>3. Cardinality(after) = c /\ c \in Nat
    <2>0. runMsgEvents(p, n).counts <=> n \notin Listed
      BY <1>1, ListedIsDropped
    <2>1. p.counted = Cardinality(before)
      BY DEF InUse, Obeying
    <2>2. CASE n \in Listed
      <3>1. after = before
        BY <1>1, <2>2
      <3> HIDE DEF before, after
      <3> QED
        BY <1>1, <2>0, <2>1, <2>2, <3>1
    <2>3. CASE n \notin Listed
      <3>1. after = before \cup {n}
        BY <1>1, <2>3
      <3>2. Cardinality(before \cup {n}) = Cardinality(before) + 1
        BY <1>2, FS_AddElement
      <3> HIDE DEF before, after
      <3> QED
        BY <1>1, <2>0, <2>1, <2>3, <3>1, <3>2
    <2> QED
      BY <2>2, <2>3
  <1>4. /\ q \in Process
        /\ q.msgNo = n /\ q.counted = c /\ q.constant = p.constant /\ q.chance = p.chance
        /\ q.seed = p.seed /\ q.rate = p.rate /\ q.debug = p.debug
    BY <1>1, <1>3 DEF Process
  <1>5. q \in InUse
    <2> HIDE DEF q
    <2> QED
      BY <1>3, <1>4 DEF InUse, Obeying, FromEnv
  <1> QED
    BY <1>5

\* The server and its child after a fork, of the server before it.
ParentOf(p) == [p EXCEPT !.nextSeed = p.nextSeed + 1]
ChildOf(p) == setUserMode_SeedRand([ParentOf(p) EXCEPT !.child = TRUE], p.nextSeed)

\* What a child of the server inherits, and what stays with the server.
LEMMA Inherited ==
    ASSUME env \in Environments, NEW p \in InUse,
           NEW main, main = ParentOf(p), NEW child, child = ChildOf(p)
    PROVE  /\ main \in InUse /\ child \in InUse
           /\ main.seed = p.seed /\ main.nextSeed = p.nextSeed + 1 /\ p.nextSeed \in Int
           /\ isSet("seed") \/ child.seed = p.nextSeed
  <1>1. p \in Process /\ p.nextSeed \in Int
    BY DEF InUse, Obeying, Process
  <1>2. /\ main \in Process /\ main.nextSeed = p.nextSeed + 1
        /\ main.msgNo = p.msgNo /\ main.counted = p.counted
        /\ main.constant = p.constant /\ main.chance = p.chance
        /\ main.seed = p.seed /\ main.rate = p.rate /\ main.debug = p.debug
    BY <1>1 DEF Process, ParentOf
  <1>3. main \in InUse
    BY <1>2 DEF InUse, Obeying, FromEnv
  <1> DEFINE copy == [main EXCEPT !.child = TRUE]
  <1>4. /\ copy \in Process
        /\ copy.msgNo = main.msgNo /\ copy.counted = main.counted
        /\ copy.constant = main.constant /\ copy.chance = main.chance
        /\ copy.seed = main.seed /\ copy.rate = main.rate /\ copy.debug = main.debug
    BY <1>2 DEF Process
  <1> HIDE DEF copy
  <1>5. child = setUserMode_SeedRand(copy, p.nextSeed)
    BY DEF copy, ChildOf
  <1>6. CASE isSet("seed")
    <2>1. child = copy
      BY <1>5, <1>6 DEF setUserMode_SeedRand
    <2> QED
      BY <1>1, <1>2, <1>3, <1>4, <1>6, <2>1 DEF InUse, Obeying, FromEnv
  <1>7. CASE ~isSet("seed")
    <2>1. child = [copy EXCEPT !.seed = p.nextSeed]
      BY <1>5, <1>7 DEF setUserMode_SeedRand, setRandSeed
    <2>2. /\ child \in Process /\ child.seed = p.nextSeed
          /\ child.msgNo = copy.msgNo /\ child.counted = copy.counted
          /\ child.constant = copy.constant /\ child.chance = copy.chance
          /\ child.rate = copy.rate /\ child.debug = copy.debug
      BY <1>1, <1>4, <2>1 DEF Process
    <2> QED
      BY <1>1, <1>2, <1>3, <1>4, <1>7, <2>2 DEF InUse, Obeying, FromEnv
  <1> QED
    BY <1>6, <1>7
-----------------------------------------------------------------------------
LEMMA InitHolds == Init => IInv
  <1> SUFFICES ASSUME Init PROVE IInv
    OBVIOUS
  <1>1. processes = <<>> /\ DOMAIN processes = {} /\ Len(processes) = 0
    BY DEF Init
  <1>2. StageInv
    BY <1>1 DEF Init, StageInv, Up
  <1>3. SeedInv /\ LastInv
    BY <1>1 DEF Init, SeedInv, LastInv, Children
  <1> QED
    BY <1>1, <1>2, <1>3 DEF IInv

\* The lists, and what the environment sets, are the same after a step.
LEMMA SameEnvironment ==
    ASSUME env' = env
    PROVE  /\ Listed' = Listed
           /\ Obeying' = Obeying /\ InUse' = InUse /\ Loaded' = Loaded
           /\ isSet("port")' = isSet("port") /\ isSet("seed")' = isSet("seed")
  BY DEF Listed, ListEvent, isSet, loadEnvData, Named, FromEnv, Obeying, InUse, Loaded

\* A process is added by the library's constructors.
LEMMA LoadStep == IInv /\ Load => IInv'
  <1> SUFFICES ASSUME IInv, Load PROVE IInv'
    OBVIOUS
  <1>1. PICK p : p = SettingsManager(PacketManager(now))
    OBVIOUS
  <1>2. env' = env /\ processes' = <<p>> /\ stage' = "loaded" /\ now' = now
    BY <1>1 DEF Load
  <1>3. env \in Environments /\ now \in Nat
    BY DEF IInv, StageInv
  <1>4. p \in Loaded /\ p \in Obeying /\ p \in Process
    BY <1>1, <1>3, LoadedByEnvironment DEF Loaded, Obeying
  <1>5. p \in Loaded' /\ p \in Obeying'
    BY <1>2, <1>4, SameEnvironment
  <1>6. processes'[1] = p /\ DOMAIN (processes') = {1} /\ Len(processes') = 1
        /\ processes' \in Seq(Process) /\ processes' # <<>>
    BY <1>2, <1>4
  <1>7. StageInv'
    BY <1>2, <1>3, <1>5, <1>6 DEF StageInv, Up
  <1>8. SeedInv'
    BY <1>6 DEF SeedInv, Children
  <1>9. LastInv'
    BY <1>2, SameEnvironment DEF Load, IInv, LastInv
  <1> QED
    BY <1>5, <1>6, <1>7, <1>8, <1>9 DEF IInv

\* Both mains initialise the one process there is.
LEMMA InitialiseStep ==
    ASSUME IInv, stage = "loaded", NEW args \in Arguments, Initialise(args),
           UNCHANGED <<env, last>>
    PROVE  IInv'
  <1>1. PICK next \in now .. now + 1 :
            /\ stage' = "initialised"
            /\ processes' = [processes EXCEPT ![1] =
                                sendErr_init(@, args.rate, now, next)]
            /\ now' = next
    BY DEF Initialise
  <1>2. env \in Environments /\ now \in Nat /\ next \in Nat /\ args.rate \in Int
    BY <1>1, Cpe464Assumption DEF IInv, StageInv
  <1>3. processes \in Seq(Process) /\ Len(processes) = 1 /\ processes[1] \in Loaded
    <2>1. /\ processes \in Seq(Process) /\ Len(processes) <= 1 /\ processes # <<>>
          /\ processes[1] \in Loaded
      BY DEF IInv, StageInv
    <2>2. Len(processes) # 0 /\ Len(processes) \in Nat
      BY <2>1, EmptySeq
    <2>3. \A n \in Nat : n # 0 /\ n <= 1 => n = 1
      OBVIOUS
    <2>4. Len(processes) = 1
      BY <2>1, <2>2, <2>3
    <2> QED
      BY <2>1, <2>4
  <1>4. PICK p : p = sendErr_init(processes[1], args.rate, now, next)
    OBVIOUS
  <1>5. p \in InUse /\ p \in Obeying /\ p \in Process
    BY <1>2, <1>3, <1>4, InitialisedByOptions DEF InUse, Obeying
  <1>6. p \in InUse' /\ p \in Obeying'
    BY <1>5, SameEnvironment
  <1>7. processes' = [processes EXCEPT ![1] = p]
    BY <1>1, <1>4
  <1>8. /\ processes'[1] = p /\ DOMAIN (processes') = {1} /\ Len(processes') = 1
        /\ processes' \in Seq(Process) /\ processes' # <<>>
    <2>1. /\ processes' \in Seq(Process) /\ Len(processes') = 1
          /\ processes'[1] = p
      BY <1>3, <1>5, <1>7, ExceptSeq
    <2> QED
      BY <2>1
  <1>9. StageInv'
    <2>1. stage' = "initialised" /\ env' \in Environments /\ now' \in Nat
      BY <1>1, <1>2
    <2> QED
      BY <1>6, <1>8, <2>1 DEF StageInv, Up
  <1>10. SeedInv'
    BY <1>8 DEF SeedInv, Children
  <1>11. LastInv'
    BY SameEnvironment DEF IInv, LastInv
  <1> QED
    BY <1>6, <1>8, <1>9, <1>10, <1>11 DEF IInv

\* A process that stays as it is may exit, or serve on the port of the environment.
LEMMA SameProcesses ==
    ASSUME IInv, UNCHANGED <<env, processes, last>>, now' \in Nat,
           \/ stage' = stage /\ bound' = bound
           \/ stage' = "exited" /\ stage \in {"loaded", "initialised"}
           \/ /\ stage' = "serving" /\ stage = "initialised"
              /\ isSet("port") => bound' = htons(env.port)
    PROVE  IInv'
  <1>1. SeedInv'
    BY SameEnvironment DEF IInv, SeedInv, Children
  <1>2. LastInv'
    BY SameEnvironment DEF IInv, LastInv
  <1>3. StageInv'
    BY SameEnvironment DEF IInv, StageInv, Up
  <1> QED
    BY <1>1, <1>2, <1>3, SameEnvironment DEF IInv

\* A server forks a child: its seed is the one kept for it, above those of its siblings.
LEMMA ForkStep == IInv /\ forkMod => IInv'
  <1> SUFFICES ASSUME IInv, forkMod PROVE IInv'
    OBVIOUS
  <1> DEFINE n == Len(processes)
  <1>1. PICK old, main, child :
            /\ old = processes[1]
            /\ main = [old EXCEPT !.nextSeed = old.nextSeed + 1]
            /\ child = setUserMode_SeedRand([main EXCEPT !.child = TRUE], old.nextSeed)
    OBVIOUS
  <1>2. /\ stage = "serving" /\ processes' = Append([processes EXCEPT ![1] = main], child)
        /\ UNCHANGED <<env, now, stage, bound, last>>
    BY <1>1 DEF forkMod
  <1>3. /\ env \in Environments /\ now \in Nat /\ processes \in Seq(Process)
        /\ processes # <<>> /\ \A i \in DOMAIN processes : processes[i] \in InUse
    BY <1>2 DEF IInv, StageInv, Up
  <1>4. n \in Nat /\ n # 0 /\ DOMAIN processes = 1 .. n
    BY <1>3, EmptySeq
  <1>5. /\ main \in InUse /\ child \in InUse
        /\ main.seed = old.seed /\ main.nextSeed = old.nextSeed + 1 /\ old.nextSeed \in Int
        /\ isSet("seed") \/ child.seed = old.nextSeed
    <2>1. old \in InUse
      BY <1>1, <1>3, <1>4
    <2>2. main = ParentOf(old) /\ child = ChildOf(old)
      BY <1>1 DEF ParentOf, ChildOf
    <2> QED
      BY <1>3, <2>1, <2>2, Inherited
  <1>6. main \in Process /\ child \in Process
    BY <1>5 DEF InUse, Obeying
  <1>7. /\ processes' \in Seq(Process) /\ Len(processes') = n + 1
        /\ processes'[1] = main /\ processes'[n + 1] = child
        /\ \A i \in 2 .. n : processes'[i] = processes[i]
    <2> DEFINE rest == [processes EXCEPT ![1] = main]
    <2>1. /\ rest \in Seq(Process) /\ Len(rest) = n
          /\ rest[1] = main /\ \A i \in 2 .. n : rest[i] = processes[i]
      BY <1>3, <1>4, <1>6, ExceptSeq
    <2>2. processes' = Append(rest, child)
      BY <1>2
    <2> HIDE DEF rest
    <2> QED
      BY <1>4, <1>6, <2>1, <2>2, AppendProperties
  <1> HIDE DEF n
  <1>8. DOMAIN (processes') = 1 .. n + 1 /\ processes' # <<>>
    BY <1>4, <1>7
  <1>9. \A i \in 1 .. n + 1 : processes'[i] \in InUse' /\ processes'[i] \in Obeying'
    <2>1. \A i \in 1 .. n + 1 : processes'[i] \in InUse
      BY <1>3, <1>4, <1>5, <1>7
    <2>2. InUse \subseteq Obeying
      BY DEF InUse
    <2> QED
      BY <1>2, <2>1, <2>2, SameEnvironment
  <1>10. StageInv'
    <2>1. stage = "serving" /\ isSet("port") => bound = htons(env.port)
      BY DEF IInv, StageInv
    <2> QED
      BY <1>2, <1>3, <1>7, <1>8, <1>9, <2>1, SameEnvironment DEF StageInv, Up
  <1>11. SeedInv'
    <2>1. CASE isSet("seed")
      BY <1>2, <2>1, SameEnvironment DEF SeedInv
    <2>2. CASE ~isSet("seed")
      <3>1. \A i \in 2 .. n : /\ processes[i].seed < old.nextSeed
                              /\ \A j \in 2 .. n : i # j => processes[i].seed # processes[j].seed
        BY <1>1, <2>2 DEF IInv, SeedInv, Children, n
      <3>2. \A i \in 2 .. n : processes[i].seed \in Int
        <4>1. \A q \in Process : q.seed \in Int
          BY DEF Process
        <4>2. \A i \in 2 .. n : processes[i] \in Process
          BY <1>3, <1>4
        <4> QED
          BY <4>1, <4>2
      <3>3. \A i \in 2 .. n + 1 :
                /\ i = n + 1 \/ i \in 2 .. n
                /\ i = n + 1 => processes'[i].seed = old.nextSeed
                /\ i \in 2 .. n => processes'[i].seed = processes[i].seed
        BY <1>4, <1>5, <1>7, <2>2
      <3>4. \A i \in 2 .. n + 1 : processes'[i].seed < processes'[1].nextSeed
        BY <1>5, <1>7, <3>1, <3>2, <3>3
      <3>5. \A i, j \in 2 .. n + 1 : i # j => processes'[i].seed # processes'[j].seed
        BY <1>5, <3>1, <3>2, <3>3
      <3> QED
        BY <1>7, <3>4, <3>5 DEF SeedInv, Children
    <2> QED
      BY <2>1, <2>2
  <1>12. LastInv'
    BY <1>2, SameEnvironment DEF IInv, LastInv
  <1> QED
    BY <1>8, <1>9, <1>10, <1>11, <1>12 DEF IInv

\* A message is sent: dropped if it is listed, and counted if not.
LEMMA SendStep ==
    ASSUME IInv, NEW i \in DOMAIN processes, sendto_Err(i)
    PROVE  IInv'
  <1> DEFINE n == processes[i].msgNo + 1
  <1>1. PICK old, c :
            /\ old = processes[i]
            /\ c = old.counted + (IF runMsgEvents(old, n).counts THEN 1 ELSE 0)
    OBVIOUS
  <1>2. PICK new : new = [old EXCEPT !.msgNo = n, !.counted = c]
    OBVIOUS
  <1>3. /\ Up /\ processes' = [processes EXCEPT ![i] = new]
        /\ UNCHANGED <<env, now, stage, bound>>
    BY <1>1, <1>2 DEF sendto_Err, Up
  <1>4. PICK fate \in processEvents(old, n) : last' = [by |-> i, msgNo |-> n, fate |-> fate]
    BY <1>1 DEF sendto_Err
  <1>5. /\ env \in Environments /\ now \in Nat /\ processes \in Seq(Process)
        /\ \A j \in DOMAIN processes : processes[j] \in InUse
        /\ old \in InUse
    BY <1>1, <1>3 DEF IInv, StageInv
  <1>6. new \in InUse
    BY <1>1, <1>2, <1>5, SentMessage
  <1>7. /\ old \in Process /\ new \in Process /\ n \in Nat
        /\ new.seed = old.seed /\ new.nextSeed = old.nextSeed
    <2>1. old \in Process /\ new \in Process
      BY <1>5, <1>6 DEF InUse, Obeying
    <2> QED
      BY <1>1, <1>2, <2>1 DEF Process
  <1>8. LastInv'
    <2>1. n \in Listed => runMsgEvents(old, n).dropped
      BY <1>5, <1>7, ListedIsDropped
    <2>2. n \in Listed => fate = "dropped"
      BY <1>4, <2>1 DEF processEvents
    <2>3. last'.msgNo = n /\ last'.fate = fate
      BY <1>4
    <2> QED
      BY <1>3, <2>2, <2>3, SameEnvironment DEF LastInv
  <1> HIDE DEF n
  <1>9. /\ processes' \in Seq(Process) /\ Len(processes') = Len(processes)
        /\ DOMAIN (processes') = DOMAIN processes
        /\ processes'[i] = new
        /\ \A j \in DOMAIN processes : j # i => processes'[j] = processes[j]
    BY <1>3, <1>5, <1>7, ExceptSeq
  <1>10. \A j \in DOMAIN processes : processes'[j] \in InUse' /\ processes'[j] \in Obeying'
    <2>1. \A j \in DOMAIN processes : processes'[j] \in InUse
      BY <1>5, <1>6, <1>9
    <2>2. InUse \subseteq Obeying
      BY DEF InUse
    <2> QED
      BY <1>3, <2>1, <2>2, SameEnvironment
  <1>11. StageInv'
    <2>1. /\ stage = "serving" /\ isSet("port") => bound = htons(env.port)
          /\ stage # "serving" => Len(processes) <= 1
      BY DEF IInv, StageInv
    <2>2. processes # <<>> /\ processes' # <<>>
      BY <1>9
    <2> QED
      BY <1>3, <1>5, <1>9, <1>10, <2>1, <2>2, SameEnvironment DEF StageInv, Up
  <1>12. SeedInv'
    <2>1. \A j \in DOMAIN processes :
             /\ processes'[j].seed = processes[j].seed
             /\ processes'[j].nextSeed = processes[j].nextSeed
      BY <1>1, <1>7, <1>9
    <2>2. Children' = Children /\ Children \subseteq DOMAIN processes /\ 1 \in DOMAIN processes
      BY <1>5, <1>9 DEF Children
    <2> QED
      BY <1>3, <2>1, <2>2, SameEnvironment DEF IInv, SeedInv
  <1> QED
    BY <1>8, <1>9, <1>10, <1>11, <1>12 DEF IInv

LEMMA StepHolds == IInv /\ [Next]_vars => IInv'
  <1> SUFFICES ASSUME IInv, [Next]_vars PROVE IInv'
    OBVIOUS
  <1>0. now \in Nat
    BY DEF IInv, StageInv
  <1>1. CASE Tick
    <2>1. UNCHANGED <<env, processes, last, stage, bound>> /\ now' \in Nat
      BY <1>0, <1>1 DEF Tick
    <2> QED
      BY <2>1, SameProcesses
  <1>2. CASE Load
    BY <1>2, LoadStep
  <1>3. CASE RcopyMain
    <2>1. stage = "loaded" /\ UNCHANGED <<env, last, bound>>
      BY <1>3 DEF RcopyMain
    <2>2. PICK args \in Arguments :
             \/ Initialise(args)
             \/ stage' = "exited" /\ UNCHANGED <<processes, now>>
      BY <1>3, Zenon DEF RcopyMain
    <2>3. CASE Initialise(args)
      BY <2>1, <2>3, InitialiseStep
    <2>4. CASE stage' = "exited" /\ UNCHANGED <<processes, now>>
      BY <1>0, <2>1, <2>4, SameProcesses
    <2> QED
      BY <2>2, <2>3, <2>4
  <1>4. CASE ServerMain
    <2>1. stage = "loaded" /\ UNCHANGED <<env, last, bound>>
      BY <1>4 DEF ServerMain
    <2>2. PICK args \in Arguments :
             \/ Initialise(args)
             \/ stage' = "exited" /\ UNCHANGED <<processes, now>>
      BY <1>4, Zenon DEF ServerMain
    <2>3. CASE Initialise(args)
      BY <2>1, <2>3, InitialiseStep
    <2>4. CASE stage' = "exited" /\ UNCHANGED <<processes, now>>
      BY <1>0, <2>1, <2>4, SameProcesses
    <2> QED
      BY <2>2, <2>3, <2>4
  <1>5. CASE udpServerSetup
    <2>1. /\ stage = "initialised" /\ UNCHANGED <<env, now, processes, last>>
          /\ \/ stage' = "serving" /\ bound' = bindMod(portNumber)
             \/ stage' = "exited"
      BY <1>5 DEF udpServerSetup
    <2>2. isSet("port") => bindMod(portNumber) = htons(env.port)
      BY DEF isSet, loadEnvData, bindMod
    <2> QED
      BY <1>0, <2>1, <2>2, SameProcesses
  <1>6. CASE forkMod
    BY <1>6, ForkStep
  <1>7. CASE \E i \in DOMAIN processes : sendto_Err(i)
    BY <1>7, SendStep
  <1>8. CASE UNCHANGED vars
    BY <1>0, <1>8, SameProcesses DEF vars
  <1> QED
    BY <1>1, <1>2, <1>3, <1>4, <1>5, <1>6, <1>7, <1>8 DEF Next

LEMMA Invariance == Spec => []IInv
  BY InitHolds, StepHolds, PTL DEF Spec
-----------------------------------------------------------------------------
\* However many children a server has and whatever they and it send, no two children
\* draw from one seed: setUserMode_SeedRand in forkMod gives each the seed that the
\* server counts up, and the environment alone can set it otherwise.
THEOREM SeedsDiffer == Spec => []SiblingSeedsDiffer
  <1>1. IInv => SiblingSeedsDiffer
    BY DEF IInv, SeedInv, SiblingSeedsDiffer
  <1> QED
    BY <1>1, Invariance, PTL

\* What the environment sets stands in main and in every child, over the options of
\* sendErr_init, the seeds of forkMod and the port of the program.
THEOREM EnvironmentWins == Spec => []EnvPrecedence
  <1>1. IInv => EnvPrecedence
    BY DEF IInv, StageInv, EnvPrecedence, Obeying, FromEnv
  <1> QED
    BY <1>1, Invariance, PTL

\* A list of messages to flip, which loadEnvData_ErrFlip reads and never uses, makes
\* no flip and keeps setUserMode_ErrFlip from asking for random ones, in all processes.
THEOREM FlipListIsMute == Spec => []FlipListSilences
  <1>1. IInv => FlipListSilences
    BY DEF IInv, StageInv, FlipListSilences, InUse
  <1> QED
    BY <1>1, Invariance, PTL

\* In every process a message is dropped if the environment lists it, and infoSeqNo,
\* which runs after the drop, counts exactly the messages that are not listed.
THEOREM ListedNeverSent == Spec => []ListedDropped
  <1>1. IInv => ListedDropped
    <2> SUFFICES ASSUME IInv PROVE ListedDropped
      OBVIOUS
    <2>1. last # NoMessage /\ last.msgNo \in Listed => last.fate = "dropped"
      BY DEF IInv, LastInv
    <2>2. Up => \A i \in DOMAIN processes :
              processes[i].counted = Cardinality((1 .. processes[i].msgNo) \ Listed)
      BY DEF IInv, StageInv, InUse
    <2> QED
      BY <2>1, <2>2 DEF ListedDropped, Listed
  <1> QED
    BY <1>1, Invariance, PTL
==============================================================================
