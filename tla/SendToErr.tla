------------------------------- MODULE SendToErr -------------------------------
(***************************************************************************)
(* libcpe464, linked into rcopy and server in place of sendto: what        *)
(* PacketManager does to a message, and how SettingsManager and            *)
(* sendErr_init set it up from the environment and the program's options.  *)
(* drand48 is a free choice.  infoSeqNo, which only counts, is left out.   *)
(*                                                                         *)
(* An environment is [rate, drop, flip].  A variable is Unset, NotANumber, *)
(* or a rate, reduced to whether it is at least 1; a list is the sequence  *)
(* of what its commas separate.                                            *)
(***************************************************************************)
EXTENDS Integers, SequencesExt

CONSTANTS
    Unset, NotANumber,
    FlipPositions     \* bound of the model: bytes that may be flipped

Byte == 256
Dropped == <<>>       \* no message is empty: sendto_Err exits on length 0
-----------------------------------------------------------------------------
\* PacketManager: the messages listed to be dropped, which is the standard event,
\* the random events, and whether one of them always happens.
PacketManager == [listed |-> {}, chance |-> {}, always |-> FALSE]

setErrorRate(p, rate) == [p EXCEPT !.always = rate]
addMsgEvent_Standard(p, list) == [p EXCEPT !.listed = @ \cup list]
addMsgEvent_Random(p, event) == [p EXCEPT !.chance = @ \cup {event}]

\* The numbers before the first item that is not one; the negative ones are left out.
parser2ListLong(text) ==
    LET wrong == SelectInSeq(text, LAMBDA item : item = NotANumber)
    IN  IF wrong = 0 THEN text ELSE SubSeq(text, 1, wrong - 1)
parserLong2Uint32(longs) == {n \in ToSet(longs) : n >= 0}

\* The variables that count as set: a rate that is a number, and any list.
loadEnvData(env) ==
    {v \in DOMAIN env : env[v] # Unset /\ (v = "rate" => env[v] # NotANumber)}

loadEnvData_ErrRate(p, env) ==
    IF "rate" \in loadEnvData(env) THEN setErrorRate(p, env.rate) ELSE p

loadEnvData_ErrDrop(p, env) ==
    LET list == parserLong2Uint32(parser2ListLong(env.drop)) IN
    IF "drop" \notin loadEnvData(env) THEN p
    ELSE IF list = {} THEN addMsgEvent_Random(p, "errorDrop")
    ELSE addMsgEvent_Standard(p, list)

\* A list of messages to flip is not implemented.
loadEnvData_ErrFlip(p, env) ==
    IF "flip" \in loadEnvData(env) /\ parserLong2Uint32(parser2ListLong(env.flip)) = {}
    THEN addMsgEvent_Random(p, "errorFlipBits") ELSE p

\* The constructor, which runs before main.
SettingsManager(env) ==
    loadEnvData_ErrFlip(loadEnvData_ErrDrop(loadEnvData_ErrRate(PacketManager, env), env), env)

\* The program's options: a variable that is set has precedence.
setUserMode_ErrRate(p, env, rate) ==
    IF "rate" \in loadEnvData(env) THEN p ELSE setErrorRate(p, rate)
setUserMode_ErrDrop(p, env, isEnabled) ==
    IF "drop" \in loadEnvData(env) \/ ~isEnabled THEN p ELSE addMsgEvent_Random(p, "errorDrop")
setUserMode_ErrFlip(p, env, isEnabled) ==
    IF "flip" \in loadEnvData(env) \/ ~isEnabled THEN p ELSE addMsgEvent_Random(p, "errorFlipBits")

sendErr_init(p, env, rate, drop_flag, flip_flag) ==
    setUserMode_ErrFlip(setUserMode_ErrDrop(setUserMode_ErrRate(p, env, rate),
                                            env, drop_flag), env, flip_flag)
-----------------------------------------------------------------------------
errorDrop(dropAll, dropList, buf, msgNo) ==
    IF dropAll \/ msgNo \in dropList THEN Dropped ELSE buf

\* Any byte is XORed with 0xFF.
errorFlipBits(buf) ==
    {[buf EXCEPT ![i] = Byte - 1 - @] : i \in DOMAIN buf \cap FlipPositions}

\* The standard events: the drop list.
runMsgEvents(pktMgr, buf, msgNo) == errorDrop(FALSE, pktMgr.listed, buf, msgNo)

\* One of the random events, or none.
randomEvents(pktMgr, buf, msgNo) ==
    (IF "errorDrop" \in pktMgr.chance THEN {errorDrop(TRUE, {}, buf, msgNo)} ELSE {})
    \cup (IF "errorFlipBits" \in pktMgr.chance THEN errorFlipBits(buf) ELSE {})
    \cup (IF pktMgr.always /\ pktMgr.chance # {} THEN {} ELSE {buf})

\* Mutant: the random event decides, whatever the listed one did.
processEvents_LastWins(pktMgr, buf, msgNo) ==
    IF pktMgr.chance = {} THEN {runMsgEvents(pktMgr, buf, msgNo)}
                          ELSE randomEvents(pktMgr, buf, msgNo)

\* What may leave the process for message msgNo.
processEvents(pktMgr, buf, msgNo) ==
    IF runMsgEvents(pktMgr, buf, msgNo) = Dropped THEN {Dropped}
                                                  ELSE randomEvents(pktMgr, buf, msgNo)
=============================================================================
