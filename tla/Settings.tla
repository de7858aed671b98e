-------------------------------- MODULE Settings --------------------------------
(***************************************************************************)
(* The adapter's EEPROM and the copy of it in gMA.prevBuf: MA_EEPROMRead,  *)
(* MA_EEPROMWrite, the calls that read one setting (MA_GetTel, _GetUserID, *)
(* _GetMailID), and MA_TelServer, which dials in with what it has read.    *)
(*                                                                         *)
(* The EEPROM is read and written in two parts, each known by the version  *)
(* it belongs to.  Version 0 was never registered.                         *)
(***************************************************************************)
EXTENDS Http

CONSTANT Versions   \* what the game writes

ASSUME SettingsAssumption == Versions \subseteq Nat \ {0}

VARIABLE eeprom     \* the two parts

SettingsInit == eeprom \in {[i \in {0, 1} |-> v] : v \in {0} \cup Versions}

NoLine == 255       \* what CHECK_STATUS answers where nothing is plugged in

\* EEPROMSumCheck: parts of different versions do not have the right sum.
EEPROMRegistrationCheck(first) == first # 0
EEPROMSumCheck(first, second)  == first = second

----------------------------------------------------------------------------
(* The calls.                                                              *)

Aside == NotReceiving /\ NotMailing /\ http' = NoPage /\ UNCHANGED <<held, eeprom>>

MA_EEPROMRead == AtRest("OFFLINE") /\ "EEPROM" \in Calls /\ Begin("EEPROM_READ", 0, 0) /\ Aside

MA_EEPROMWrite ==
  /\ AtRest("OFFLINE") /\ "EEPROM" \in Calls
  /\ \E v \in Versions : Begin("EEPROM_WRITE", 0, v)
  /\ Aside

\* MA_GetTel, MA_GetUserID and MA_GetMailID: from the copy, if there is one.
MA_GetEEPROMData ==
  /\ AtRest("OFFLINE") /\ "EEPROM" \in Calls /\ Aside
  /\ \/ ~prevBuf.hasEEPROMData /\ Begin("GETEEPROMDATA", 0, 0)
     \/ prevBuf.hasEEPROMData /\ Begin("NONE", taskStep, param)

MA_TelServer == AtRest("OFFLINE") /\ Begin("TELSERVER", 0, 0) /\ Aside

----------------------------------------------------------------------------
(* The tasks.                                                              *)

Ask(cmd, arg, step) == Command(cmd, arg, "empty", step) /\ UNCHANGED <<connMode, prevBuf>>

\* Steps 0 and 1 of every task, and its way out when a command is refused or
\* what was read is no good: steps 0xfa and 0xfb.
Opening == (At(0) /\ Ask("START", 0, 1)) \/ (At(1) /\ Ask("CHANGE_CLOCK", 0, 2))

Aborts(cmds) ==
  \/ (Nega(cmds) \/ At(250)) /\ Ask("END", 0, 251)
  \/ At(251) /\ connMode' = "OFFLINE" /\ TaskFails /\ UNCHANGED prevBuf

\* MA_Reset once the adapter has been left.
Closing(step) == At(step) /\ connMode' = "OFFLINE" /\ TaskEnds /\ UNCHANGED prevBuf

SettingsTask(t, refusals, steps) ==
  /\ Runs(t)
  /\ Aborts(refusals) \/ (~Nega(refusals) /\ steps)
  /\ UNCHANGED <<table, adapter, held, recv, bufferEmpty, mailVars, http, eeprom>>

MATASK_EEPROM_Read ==
  SettingsTask("EEPROM_READ", {"CHANGE_CLOCK", "EEPROM_READ"},
    \/ Opening
    \/ At(2) /\ Ask("EEPROM_READ", 0, 3)
    \/ At(3) /\ Ask("EEPROM_READ", 1, 4)
    \/ At(4) /\ Ask("END", 0, 5)
    \/ Closing(5))

\* The copy in prevBuf is not dropped.
MATASK_EEPROM_Write ==
  SettingsTask("EEPROM_WRITE", {"CHANGE_CLOCK", "EEPROM_WRITE"},
    \/ Opening
    \/ At(2) /\ Ask("EEPROM_WRITE", 0, 3)
    \/ At(3) /\ Ask("EEPROM_WRITE", 1, 4)
    \/ At(4) /\ Ask("END", 0, 5)
    \/ Closing(5))

Rejected == Goes(250) /\ UNCHANGED <<connMode, prevBuf>>

\* The first part is in recvBuf: keep it and ask for the second.
FirstPart(step) ==
  /\ At(step)
  /\ IF ~EEPROMRegistrationCheck(recvData) THEN Rejected
     ELSE /\ prevBuf' = [prevBuf EXCEPT !.line = "none", !.rest = <<>>, !.first = recvData]
          /\ Command("EEPROM_READ", 1, "empty", step + 1) /\ UNCHANGED connMode

\* Mistake: the copy counts before its sum has been checked.
SecondUnchecked(go) ==
  prevBuf' = [prevBuf EXCEPT !.second = recvData, !.hasEEPROMData = TRUE] /\ go

\* Then the second: the copy counts if its sum is right.
SecondPart(go) ==
  IF EEPROMSumCheck(prevBuf.first, recvData)
  THEN prevBuf' = [prevBuf EXCEPT !.second = recvData, !.hasEEPROMData = TRUE] /\ go
  ELSE prevBuf' = [prevBuf EXCEPT !.second = recvData] /\ Goes(250)

MATASK_GetEEPROMData ==
  SettingsTask("GETEEPROMDATA", {"CHANGE_CLOCK", "EEPROM_READ"},
    \/ Opening
    \/ At(2) /\ Ask("EEPROM_READ", 0, 3)
    \/ FirstPart(3)
    \/ At(4) /\ SecondPart(Command("END", 0, "empty", 5)) /\ UNCHANGED connMode
    \/ At(5) /\ Goes(6) /\ UNCHANGED <<connMode, prevBuf>>
    \/ Closing(6))

\* A refused PPP_CONNECT hangs up first (0xf9).  What step 6 copies from prevBuf
\* is used by later steps only as it is.
MATASK_TelServer ==
  SettingsTask("TELSERVER", {"CHANGE_CLOCK", "CHECK_STATUS", "TEL", "EEPROM_READ"},
    \/ (Nega({"PPP_CONNECT"}) \/ At(249)) /\ Ask("OFFLINE", 0, 250)
    \/ /\ ~Nega({"PPP_CONNECT"})
       /\ \/ Opening
          \/ At(2) /\ Ask("CHECK_STATUS", 0, 3)
          \/ At(3) /\ recvData = NoLine /\ Rejected
          \/ At(3) /\ recvData # NoLine /\ ~prevBuf.hasEEPROMData /\ Ask("EEPROM_READ", 0, 4)
          \/ At(3) /\ recvData # NoLine /\ prevBuf.hasEEPROMData
             /\ Goes(6) /\ UNCHANGED <<connMode, prevBuf>>
          \/ FirstPart(4)
          \/ At(5) /\ SecondPart(Goes(6)) /\ UNCHANGED connMode
          \/ At(6) /\ Goes(7) /\ UNCHANGED <<connMode, prevBuf>>
          \/ At(7) /\ Ask("TEL", 0, 8)
          \/ At(8) /\ Ask("PPP_CONNECT", 0, 9)
          \/ At(9) /\ connMode' = "PPP" /\ TaskEnds /\ UNCHANGED prevBuf)

----------------------------------------------------------------------------

\* The adapter's answers to the commands of this module.
SettingsAnswers ==
  /\ busy /\ sendCmd \notin Commands
  /\ \/ sendCmd # "START" /\ Refused /\ UNCHANGED <<online, eeprom>>
     \/ /\ sendCmd \in {"START", "CHANGE_CLOCK", "TEL", "PPP_CONNECT"} /\ Good
        /\ online' = (sendCmd = "PPP_CONNECT") /\ UNCHANGED eeprom
     \/ /\ sendCmd = "CHECK_STATUS"
        /\ \E status \in {0, NoLine} : Reply(sendCmd, status, NoChunk)
        /\ UNCHANGED <<online, eeprom>>
     \/ /\ sendCmd = "EEPROM_READ" /\ Reply(sendCmd, eeprom[sendSocket], NoChunk)
        /\ UNCHANGED <<online, eeprom>>
     \/ /\ sendCmd = "EEPROM_WRITE" /\ Good
        /\ eeprom' = [eeprom EXCEPT ![sendSocket] = param] /\ UNCHANGED online
  /\ UNCHANGED <<peer, due, sent, answered, table, connMode, api, flags, prevBuf,
                 held, recv, bufferEmpty, mailVars, http>>

=============================================================================
