----------------------------- MODULE AtaProofs -----------------------------
(***************************************************************************)
(* Probe and transfers of the ATA driver, for a disk, a sector and a call  *)
(* of any size and any number of calls.                                    *)
(***************************************************************************)
EXTENDS Ata, TLAPS

Probing == {"probe", "first", "busy", "decide", "ident"}
Asked   == {"first", "busy", "decide", "ident"}
Waiting == {"retry", "retry2"}
Calling == {"command", "retry", "retry2", "words", "done"}

Probee     == IF i = 0 THEN "master" ELSE "slave"
Settled(d) == phase[d] \in {"none", "ready", "failed"}
Committing == phase["master"] = "busy" /\ cmd["master"] = "commit"

\* One drive is asked at a time, and its first status says what it does.
ProbeOK ==
    /\ pc \in Probing => i \in {0, 1} /\ cmd["master"] \in {"none", "identify"}
    /\ cmd["slave"] \in {"none", "identify"}
    /\ pc \in Asked => sel = Probee
    /\ \A d \in Drive :
           (pc \in Probing \/ d = "slave") /\ (pc \in Asked => d # sel) => Settled(d)
    /\ pc \in {"first", "busy", "decide"} =>
           phase[sel] # "ready" /\ (phase[sel] # "none" => at = 0)
    /\ pc \in {"busy", "decide"} =>
           /\ "ERR" \in status => phase[sel] \in {"none", "failed"}
           /\ "ERR" \notin status /\ "DRQ" \in status => phase[sel] = "data"
    /\ pc = "ident" => at = w /\ phase[sel] = IF w = Words THEN "ready" ELSE "data"

\* A command that was not taken is followed by no transfer: words go to
\* the sector that was addressed.
CallOK ==
    /\ early => pc \in {"retry", "retry2", "panic"}
    /\ ata_pm => phase["master"] # "none"
    /\ pc \in Calling => ata_pm /\ lba + n <= Sectors /\ i \in 0 .. n
    /\ pc \in Calling \ {"done"} => i < n
    /\ pc = "done" => i = n
    /\ pc \in {"idle", "command", "done"} =>
           phase["master"] # "data" /\ (phase["master"] = "busy" => cmd["master"] = "commit")
    /\ pc \in Waiting =>
           /\ sel = "master"
           /\ \/ /\ cmd["master"] = op /\ sect = lba + i /\ at = 0
                 /\ phase["master"] # "ready" /\ ~early
              \/ early /\ cmd["master"] = "commit" /\ phase["master"] # "data"
    /\ pc = "words" =>
           /\ sel = "master" /\ sect = lba + i /\ at = w
           /\ w # Words => phase["master"] = "data" /\ cmd["master"] = op
           /\ w = Words => phase["master"] # "data" /\ cmd["master"] = IF op = "read" THEN "read" ELSE "commit"
           /\ w = Words /\ op = "read" => phase["master"] # "busy"
    /\ pc = "panic" => phase["master"] = "failed"

\* What sector s holds in the end: SectorDone follows the last word.
Ended      == pc = "words" /\ op = "write" /\ w = Words
Written(s) == IF Ended /\ s = sect THEN buf[i] ELSE image[s]

DataOK ==
    /\ \A s \in Sector : (IF Committing /\ s = sect THEN held ELSE disk[s]) = Written(s)
    /\ pc = "words" /\ op = "write" => \A x \in Word : x < w => held[x] = buf[i][x]
    /\ op = "read" /\ (pc = "words" \/ (pc \in Waiting /\ phase["master"] = "data"))
           => held = disk[sect]
    /\ pc = "words" /\ op = "read" => \A x \in Word : x < w => buf[i][x] = held[x]
    /\ pc \in Calling /\ op = "read" => \A k \in Index : k < i => buf[k] = image[lba + k]

IInv == TypeOK /\ ProbeOK /\ CallOK /\ (~early /\ ~lost => DataOK)

-----------------------------------------------------------------------------
LEMMA InitIInv == Init => IInv
<1> SUFFICES ASSUME Init PROVE IInv
  OBVIOUS
<1> USE SizeAssumption, BoundAssumption
<1>1. Zeros \in Content
  BY DEF Zeros, Content, Index, Word
<1>2. TypeOK
  <2>1. disk \in [Sector -> Content] /\ image \in [Sector -> Content] /\ buf \in [Index -> Content]
    BY <1>1 DEF Init
  <2>2. phase \in [Drive -> {"none", "ready", "busy", "data", "failed"}]
    BY DEF Init
  <2>3. cmd \in [Drive -> {"none", "identify", "read", "write", "commit"}]
    BY DEF Init
  <2>4. sel \in Drive /\ lba \in Sector /\ sect \in Sector
    BY DEF Init, Drive, Sector
  <2>5. /\ pc \in Labels /\ status \subseteq {"BSY", "DRDY", "DRQ", "ERR"}
        /\ w \in 0 .. Words /\ at \in 0 .. Words /\ n \in 0 .. MaxSects /\ calls \in 0 .. Calls
        /\ i \in (0 .. MaxSects) \cup {1, 2} /\ op \in {"read", "write"} /\ held \in Content
    BY <1>1 DEF Init, Labels
  <2>6. ata_pm \in BOOLEAN /\ early \in BOOLEAN /\ lost \in BOOLEAN
    BY DEF Init
  <2> QED BY <2>1, <2>2, <2>3, <2>4, <2>5, <2>6 DEF TypeOK
<1>3. ProbeOK
  BY DEF Init, ProbeOK, Probing, Asked, Settled, Drive
<1>4. CallOK
  BY DEF Init, CallOK, Calling, Waiting
<1>5. DataOK
  BY DEF Init, DataOK, Committing, Written, Ended, Calling, Waiting, Drive
<1> QED BY <1>2, <1>3, <1>4, <1>5 DEF IInv

-----------------------------------------------------------------------------
(* Where a driver step transfers a word there is one in the drive.         *)
LEMMA TransferInside ==
    ASSUME TypeOK, phase[sel] = "data", at < Words, Transfer
    PROVE  /\ at' = at + 1 /\ at' \in 0 .. Words
           /\ phase' = [phase EXCEPT ![sel] =
                  IF at' = Words THEN (IF cmd[sel] = "write" THEN "busy" ELSE "ready") ELSE "data"]
           /\ cmd' = [cmd EXCEPT ![sel] = IF at' = Words /\ cmd[sel] = "write" THEN "commit" ELSE @]
BY SizeAssumption DEF Transfer, TypeOK

(* A step of a drive stays within the registers' types.                    *)
LEMMA DiskType ==
    ASSUME IInv, NEW d \in Drive, DriveReady(d) \/ DriveCommits(d) \/ DriveFails(d)
    PROVE  TypeOK'
<1> USE SizeAssumption, BoundAssumption DEF IInv
<1>1. UNCHANGED <<pc, status, w, ata_pm, op, lba, n, calls, i, buf, sel, cmd, sect, at, image, early>>
  BY DEF DriveReady, DriveCommits, DriveFails, call
<1>2. phase' \in [Drive -> {"none", "ready", "busy", "data", "failed"}]
  BY DEF DriveReady, DriveCommits, DriveFails, TypeOK
<1>3. held' \in Content /\ disk' \in [Sector -> Content]
  BY DEF DriveReady, DriveCommits, DriveFails, TypeOK
<1>4. lost' \in BOOLEAN
  BY DEF DriveReady, DriveCommits, DriveFails, TypeOK
<1> QED BY <1>1, <1>2, <1>3, <1>4 DEF TypeOK

(* No step leaves a sector or a buffer.                                    *)
LEMMA DriverType ==
    ASSUME IInv, Driver \/ Call
    PROVE  TypeOK'
<1> USE SizeAssumption, BoundAssumption DEF IInv
<1>1. CASE Identify
  <2>1. Probee \in Drive /\ (IF i = 0 THEN "master" ELSE "slave") = Probee
    BY DEF Probee, Drive
  <2>2. phase' \in [Drive -> {"none", "ready", "busy", "data", "failed"}]
        /\ cmd' \in [Drive -> {"none", "identify", "read", "write", "commit"}]
    BY <1>1, <2>1 DEF Identify, Command, TypeOK
  <2>3. sel' \in Drive /\ sect' \in Sector /\ at' \in 0 .. Words /\ early' \in BOOLEAN
    BY <1>1, <2>1 DEF Identify, Command, TypeOK
  <2> QED BY <1>1, <2>2, <2>3 DEF Identify, TypeOK, Labels, call
<1>2. CASE FirstStatus \/ IdentifyPoll \/ IdentifyFailed \/ IdentifyOnline \/ IdentifyEnd
  <2>1. i \in {0, 1} \/ ~(FirstStatus \/ IdentifyPoll \/ IdentifyFailed \/ IdentifyEnd)
    BY DEF ProbeOK, Probing, FirstStatus, IdentifyPoll, IdentifyFailed, IdentifyEnd, At
  <2>2. UNCHANGED <<op, lba, n, calls, buf, sel, phase, cmd, sect, at, held, disk, image, early, lost>>
    BY <1>2 DEF FirstStatus, IdentifyPoll, IdentifyFailed, IdentifyOnline, IdentifyEnd, call, drives
  <2>3. status' \in SUBSET {"BSY", "DRDY", "DRQ", "ERR"}
    BY <1>2 DEF FirstStatus, IdentifyPoll, IdentifyFailed, IdentifyOnline, IdentifyEnd, Status, TypeOK, Drive
  <2>4. i' \in (0 .. MaxSects) \cup {1, 2}
    BY <1>2, <2>1 DEF FirstStatus, IdentifyPoll, IdentifyFailed, IdentifyOnline, IdentifyEnd, TypeOK
  <2>5. pc' \in Labels
    BY <1>2 DEF FirstStatus, IdentifyPoll, IdentifyFailed, IdentifyOnline, IdentifyEnd, Labels, Probed
  <2>6. w' \in 0 .. Words
    BY <1>2 DEF FirstStatus, IdentifyPoll, IdentifyFailed, IdentifyOnline, IdentifyEnd, TypeOK
  <2>7. ata_pm' \in BOOLEAN
    <3>1. ata_pm \in BOOLEAN
      BY DEF TypeOK
    <3>2. ata_pm' = ata_pm \/ ata_pm' = (ata_pm \/ i = 0)
      BY <1>2, Zenon DEF FirstStatus, IdentifyPoll, IdentifyFailed, IdentifyOnline, IdentifyEnd
    <3> QED BY <3>1, <3>2
  <2> QED BY <2>2, <2>3, <2>4, <2>5, <2>6, <2>7 DEF TypeOK
<1>3. CASE IdentifyWord \/ ReadWord \/ WriteWord
  <2>1. /\ Transfer /\ w < Words /\ w' = w + 1
        /\ UNCHANGED <<pc, status, ata_pm, op, lba, n, calls, i, sel, sect, disk, image, early, lost>>
    BY <1>3 DEF IdentifyWord, ReadWord, WriteWord, SectorEnd, call
  <2>2. phase[sel] = "data" /\ at = w
    BY <1>3, <2>1 DEF IdentifyWord, ReadWord, WriteWord, At, ProbeOK, CallOK, TypeOK
  <2>3. sel \in Drive /\ cmd[sel] \in {"none", "identify", "read", "write", "commit"} /\ w' \in 0 .. Words
    BY <2>1 DEF TypeOK
  <2>4. /\ at' \in 0 .. Words
        /\ phase' \in [Drive -> {"none", "ready", "busy", "data", "failed"}]
        /\ cmd' \in [Drive -> {"none", "identify", "read", "write", "commit"}]
    BY <2>1, <2>2, <2>3, TransferInside DEF TypeOK
  <2>5. w \in Word /\ at \in Word
    BY <2>1, <2>2 DEF TypeOK, Word
  <2>6. buf' \in [Index -> Content] /\ held' \in Content
    <3>1. CASE IdentifyWord
      BY <3>1 DEF IdentifyWord, TypeOK
    <3>2. CASE ReadWord
      <4>1. i \in Index
        BY <3>2 DEF ReadWord, At, CallOK, Calling, Index, TypeOK
      <4>2. buf[i] \in Content /\ held[at] \in (0 .. Calls) \X Index \X Word
        BY <4>1, <2>5 DEF TypeOK, Content
      <4>3. [buf[i] EXCEPT ![w] = held[at]] \in Content
        BY <4>2, <2>5 DEF Content
      <4> QED BY <3>2, <4>3 DEF ReadWord, TypeOK
    <3>3. CASE WriteWord
      <4>1. i \in Index
        BY <3>3 DEF WriteWord, At, CallOK, Calling, Index, TypeOK
      <4>2. buf[i][w] \in (0 .. Calls) \X Index \X Word
        BY <4>1, <2>5 DEF TypeOK, Content
      <4> QED BY <3>3, <4>2, <2>5 DEF WriteWord, TypeOK, Content
    <3> QED BY <1>3, <3>1, <3>2, <3>3
  <2> QED BY <2>1, <2>3, <2>4, <2>6 DEF TypeOK
<1>4. CASE Call
  <2>1. /\ lba' \in Sector /\ n' \in 0 .. MaxSects /\ op' \in {"read", "write"} /\ calls' \in 0 .. Calls
        /\ i' = 0 /\ pc' = "command"
        /\ UNCHANGED <<status, w, ata_pm, sel, phase, cmd, sect, at, held, disk, image, early, lost>>
    BY <1>4 DEF Call, TypeOK, drives
  <2>2. buf' \in [Index -> Content]
    <3>1. \A k \in Index : [x \in Word |-> <<calls', k, x>>] \in Content
      BY <2>1 DEF Content
    <3>2. Zeros \in Content
      BY DEF Zeros, Content, Index, Word
    <3> QED BY <1>4, <3>1, <3>2 DEF Call
  <2> QED BY <2>1, <2>2 DEF TypeOK, Labels
<1>5. CASE SendCommand
  <2>1. lba + i \in Sector
    BY <1>5 DEF SendCommand, At, CallOK, Calling, Sector, TypeOK
  <2>2. phase' \in [Drive -> {"none", "ready", "busy", "data", "failed"}]
        /\ cmd' \in [Drive -> {"none", "identify", "read", "write", "commit"}]
    BY <1>5 DEF SendCommand, Command, TypeOK, Drive
  <2>3. sel' \in Drive /\ sect' \in Sector /\ at' \in 0 .. Words /\ early' \in BOOLEAN
    BY <1>5, <2>1 DEF SendCommand, Command, TypeOK, Drive
  <2> QED BY <1>5, <2>2, <2>3 DEF SendCommand, TypeOK, Labels, call
<1>6. CASE PollBusy \/ PollError \/ PollReady \/ Return
  <2>1. UNCHANGED <<ata_pm, op, lba, n, calls, i, buf, sel, phase, cmd, sect, at, held, disk, image, early, lost>>
    BY <1>6 DEF PollBusy, PollError, PollReady, Return, call, drives
  <2>2. status' \in SUBSET {"BSY", "DRDY", "DRQ", "ERR"}
    BY <1>6 DEF PollBusy, PollError, PollReady, Return, Status, TypeOK, Drive
  <2>3. pc' \in Labels /\ w' \in 0 .. Words
    BY <1>6 DEF PollBusy, PollError, PollReady, Return, Labels, TypeOK
  <2> QED BY <2>1, <2>2, <2>3 DEF TypeOK
<1>7. CASE SectorDone
  <2>1. lba + i \in Sector /\ i \in Index /\ i + 1 \in 0 .. MaxSects
    BY <1>7 DEF SectorDone, At, CallOK, Calling, Sector, Index, TypeOK
  <2>2. image' \in [Sector -> Content]
    BY <1>7, <2>1 DEF SectorDone, TypeOK
  <2> QED BY <1>7, <2>1, <2>2 DEF SectorDone, TypeOK, Labels, call, drives
<1> QED BY <1>1, <1>2, <1>3, <1>4, <1>5, <1>6, <1>7 DEF Driver

-----------------------------------------------------------------------------
(* A drive that answers or commits is the one the driver waits for.        *)
LEMMA DiskControl ==
    ASSUME IInv, NEW d \in Drive, DriveReady(d) \/ DriveCommits(d) \/ DriveFails(d)
    PROVE  (ProbeOK /\ CallOK)'
<1> USE DEF IInv, Drive
<1>1. /\ UNCHANGED <<pc, status, w, ata_pm, op, lba, n, i, sel, cmd, sect, at, early>>
      /\ phase[d] = "busy"
      /\ \E p \in {"ready", "data", "failed"} :
             /\ phase' = [phase EXCEPT ![d] = p]
             /\ p = "ready" <=> cmd[d] = "commit" /\ p # "failed"
             /\ p = "data" => cmd[d] # "commit"
  BY DEF DriveReady, DriveCommits, DriveFails, call
<1>2. PICK p \in {"ready", "data", "failed"} :
             /\ phase' = [phase EXCEPT ![d] = p]
             /\ p = "ready" <=> cmd[d] = "commit" /\ p # "failed"
             /\ p = "data" => cmd[d] # "commit"
  BY <1>1
<1>3. /\ phase'[d] = p /\ \A e \in Drive : e # d => phase'[e] = phase[e]
  BY <1>2 DEF TypeOK
<1>4. pc \in Labels /\ sel \in Drive
  BY DEF TypeOK
<1>5. ProbeOK'
  BY <1>1, <1>2, <1>3, <1>4 DEF ProbeOK, Probing, Asked, Settled, Probee, Labels
<1>6. CallOK'
  BY <1>1, <1>2, <1>3, <1>4 DEF ProbeOK, CallOK, Calling, Waiting, Probing, Asked, Settled, Probee, Labels, TypeOK
<1> QED BY <1>5, <1>6

(* ide_identify asks a drive that is idle, and leaves it idle.             *)
LEMMA ProbeControl ==
    ASSUME IInv, Identify \/ FirstStatus \/ IdentifyPoll \/ IdentifyFailed
                 \/ IdentifyOnline \/ IdentifyWord \/ IdentifyEnd
    PROVE  (ProbeOK /\ CallOK)'
<1> USE DEF IInv, Drive
<1>1. pc \in Probing /\ i \in {0, 1} /\ cmd["master"] \in {"none", "identify"} /\ cmd["slave"] \in {"none", "identify"} /\ early = FALSE
  BY DEF Identify, FirstStatus, IdentifyPoll, IdentifyFailed, IdentifyOnline, IdentifyWord, IdentifyEnd,
         At, ProbeOK, CallOK, Probing, TypeOK
<1>2. CASE Identify
  <2>1. PICK e \in Drive : e = Probee
    BY DEF Probee
  <2>2. /\ pc = "probe" /\ pc' = "first" /\ sel' = e
        /\ IF phase[e] \in {"ready", "failed"}
           THEN /\ phase' = [phase EXCEPT ![e] = "busy"] /\ cmd' = [cmd EXCEPT ![e] = "identify"]
                /\ at' = 0
           ELSE UNCHANGED <<phase, cmd, at>>
        /\ UNCHANGED <<ata_pm, i, w, status>>
    BY <1>2, <2>1 DEF Identify, Command, At, Probee
  <2>3. phase[e] \in {"none", "ready", "failed"}
    BY <2>2 DEF ProbeOK, Probing, Asked, Settled
  <2>4. early' = FALSE
    BY <1>1, <1>2, <2>1, <2>3 DEF Identify, Command, Probee
  <2>5. ProbeOK'
    BY <1>1, <2>1, <2>2, <2>3 DEF ProbeOK, Probing, Asked, Settled, Probee, TypeOK
  <2>6. CallOK'
    BY <1>1, <2>1, <2>2, <2>3, <2>4 DEF CallOK, Calling, Waiting, TypeOK
  <2> QED BY <2>5, <2>6
<1>3. CASE FirstStatus
  <2>1. /\ pc = "first" /\ UNCHANGED <<w, ata_pm, sel, phase, cmd, at, early>> /\ status' \in Status
        /\ \/ status' = {} /\ pc' = Probed /\ i' = i + 1
           \/ status' # {} /\ pc' = "busy" /\ i' = i
    BY <1>3 DEF FirstStatus, At, drives
  <2>2. /\ status' = {} => phase[sel] = "none"
        /\ "ERR" \in status' => phase[sel] \in {"none", "failed"}
        /\ "ERR" \notin status' /\ "DRQ" \in status' => phase[sel] = "data"
    <3>1. phase[sel] \in {"none", "ready", "busy", "data", "failed"}
      BY DEF TypeOK
    <3> QED BY <2>1, <3>1 DEF Status
  <2>3. CASE status' = {}
    BY <1>1, <2>1, <2>2, <2>3 DEF ProbeOK, CallOK, Probing, Asked, Calling, Waiting, Settled, Probee, Probed, TypeOK
  <2>4. CASE status' # {}
    BY <1>1, <2>1, <2>2, <2>4 DEF ProbeOK, CallOK, Probing, Asked, Calling, Waiting, Settled, Probee, TypeOK
  <2> QED BY <2>3, <2>4
<1>4. CASE IdentifyPoll
  BY <1>1, <1>4 DEF IdentifyPoll, At, drives, call, ProbeOK, CallOK, Probing, Asked, Calling, Waiting, Settled, Probee
<1>5. CASE IdentifyFailed
  BY <1>1, <1>5 DEF IdentifyFailed, At, drives, ProbeOK, CallOK, Probing, Asked, Calling, Waiting, Settled, Probee, Probed, TypeOK
<1>6. CASE IdentifyOnline
  <2>1. phase[sel] = "data" /\ at = 0 /\ w' = 0 /\ Words # 0
    BY <1>6, SizeAssumption DEF IdentifyOnline, At, ProbeOK
  <2> QED BY <1>1, <1>6, <2>1 DEF IdentifyOnline, At, drives, call, ProbeOK, CallOK, Probing, Asked, Calling, Waiting, Settled, Probee
<1>7. CASE IdentifyWord
  <2>1. /\ pc = "ident" /\ w < Words /\ w' = w + 1 /\ Transfer
        /\ UNCHANGED <<pc, status, ata_pm, i, sel, early>>
    BY <1>7 DEF IdentifyWord, At, SectorEnd
  <2>2. phase[sel] = "data" /\ at = w /\ cmd[sel] \in {"none", "identify"} /\ sel = Probee
    BY <1>1, <2>1 DEF ProbeOK, Asked, TypeOK
  <2>3. /\ at' = w' /\ cmd' = cmd
        /\ phase' = [phase EXCEPT ![sel] = IF at' = Words THEN "ready" ELSE "data"]
    BY <2>1, <2>2, TransferInside DEF TypeOK
  <2>4. /\ phase'[sel] = (IF w' = Words THEN "ready" ELSE "data")
        /\ \A d \in Drive : d # sel => phase'[d] = phase[d]
    BY <2>3 DEF TypeOK
  <2> QED BY <1>1, <2>1, <2>2, <2>3, <2>4 DEF ProbeOK, CallOK, Probing, Asked, Calling, Waiting, Settled, Probee, TypeOK
<1>8. CASE IdentifyEnd
  <2>1. /\ pc = "ident" /\ pc' = Probed /\ i' = i + 1 /\ w = Words
        /\ ata_pm' = (ata_pm \/ i = 0)
        /\ UNCHANGED <<status, w, sel, phase, cmd, at, early>>
    BY <1>8 DEF IdentifyEnd, At, SectorEnd, drives
  <2>2. phase[sel] = "ready" /\ sel = Probee
    BY <2>1 DEF ProbeOK, Asked
  <2>3. ata_pm' => phase["master"] # "none"
    BY <2>1, <2>2 DEF CallOK, Probee, TypeOK
  <2>4. ProbeOK'
    BY <1>1, <2>1, <2>2 DEF ProbeOK, Probing, Asked, Settled, Probee, Probed, TypeOK
  <2>5. phase["master"] \in {"none", "ready", "failed"}
    BY <2>1, <2>2 DEF ProbeOK, Probing, Asked, Settled, TypeOK
  <2>6. pc' \in {"probe", "idle"} /\ early' = FALSE
    BY <1>1, <2>1 DEF Probed
  <2> QED BY <2>1, <2>3, <2>4, <2>5, <2>6 DEF CallOK, Calling, Waiting
<1> QED BY <1>2, <1>3, <1>4, <1>5, <1>6, <1>7, <1>8

(* A call transfers only what the drive it addressed answers to.           *)
LEMMA CallControl ==
    ASSUME IInv, Call \/ SendCommand \/ PollBusy \/ PollError \/ PollReady
                 \/ ReadWord \/ WriteWord \/ SectorDone \/ Return
    PROVE  (ProbeOK /\ CallOK)'
<1> USE DEF IInv, Drive
<1>1. pc \notin Probing /\ pc \notin Asked /\ pc' \notin Probing /\ pc' \notin Asked
  BY DEF Call, SendCommand, PollBusy, PollError, PollReady, ReadWord, WriteWord, SectorDone, Return,
         At, Probing, Asked
<1>2. phase["slave"] \in {"none", "ready", "failed"} /\ cmd["slave"] \in {"none", "identify"}
  BY <1>1 DEF ProbeOK, Settled
<1>3. ASSUME phase'["slave"] = phase["slave"], cmd'["slave"] = cmd["slave"]
      PROVE  ProbeOK'
  BY <1>1, <1>2, <1>3 DEF ProbeOK, Settled, Probing, Asked
<1>4. CASE Call
  <2>1. CallOK'
    BY <1>4, BoundAssumption DEF Call, At, drives, CallOK, Calling, Waiting, TypeOK
  <2> QED BY <1>3, <1>4, <2>1 DEF Call, drives
<1>5. CASE SendCommand
  <2>1. /\ pc = "command" /\ pc' = "retry" /\ sel' = "master"
        /\ IF phase["master"] \in {"ready", "failed"}
           THEN /\ phase' = [phase EXCEPT !["master"] = "busy"] /\ cmd' = [cmd EXCEPT !["master"] = op]
                /\ sect' = lba + i /\ at' = 0
           ELSE UNCHANGED <<phase, cmd, sect, at>>
        /\ early' = (early \/ phase["master"] = "busy")
        /\ UNCHANGED <<ata_pm, op, lba, n, i>>
    BY <1>5 DEF SendCommand, Command, At, call
  <2>2. phase["master"] \in {"ready", "failed"} \/ (phase["master"] = "busy" /\ cmd["master"] = "commit")
    BY <2>1 DEF CallOK, Calling, TypeOK
  <2>3. CallOK'
    BY <2>1, <2>2 DEF CallOK, Calling, Waiting, TypeOK
  <2> QED BY <1>3, <2>1, <2>3 DEF TypeOK
<1>6. CASE PollBusy
  BY <1>3, <1>6 DEF PollBusy, At, drives, call, CallOK, Calling, Waiting
<1>7. CASE PollError
  <2>1. "master" = sel /\ phase[sel] = "failed"
    <3>1. phase[sel] \in {"none", "ready", "busy", "data", "failed"} /\ pc = "retry2"
      BY <1>7 DEF TypeOK, PollError, At
    <3>2. phase[sel] \in {"none", "failed"}
      BY <1>7, <3>1 DEF PollError, Status
    <3> QED BY <3>1, <3>2 DEF CallOK, Calling, Waiting
  <2> QED BY <1>3, <1>7, <2>1 DEF PollError, At, drives, call, CallOK, Calling, Waiting
<1>8. CASE PollReady
  <2>1. "master" = sel /\ phase[sel] = "data"
    <3>1. phase[sel] \in {"none", "ready", "busy", "data", "failed"} /\ pc = "retry2"
      BY <1>8 DEF TypeOK, PollReady, At
    <3> QED BY <1>8, <3>1 DEF PollReady, Status, CallOK, Waiting
  <2>2. /\ pc = "retry2" /\ pc' = "words" /\ w' = 0 /\ Words # 0
        /\ UNCHANGED <<ata_pm, op, lba, n, i, sel, phase, cmd, sect, at, early>>
    BY <1>8, SizeAssumption DEF PollReady, At, drives, call
  <2>3. cmd["master"] = op /\ sect = lba + i /\ at = 0 /\ ~early
    <3>1. pc \in Waiting /\ phase["master"] = "data"
      BY <2>1, <2>2 DEF Waiting
    <3> QED BY <3>1 DEF CallOK
  <2>4. CallOK'
    BY <2>1, <2>2, <2>3 DEF CallOK, Calling, Waiting
  <2> QED BY <1>3, <2>2, <2>4
<1>9. CASE ReadWord \/ WriteWord
  <2>1. /\ pc = "words" /\ w < Words /\ w' = w + 1 /\ Transfer
        /\ UNCHANGED <<pc, ata_pm, op, lba, n, i, sel, sect, early>>
    BY <1>9 DEF ReadWord, WriteWord, At, SectorEnd, call
  <2>2. phase[sel] = "data" /\ at = w /\ cmd[sel] = op /\ sel = "master" /\ w \in 0 .. Words
    BY <2>1 DEF CallOK, TypeOK
  <2>3. /\ at' = w'
        /\ phase' = [phase EXCEPT !["master"] =
               IF w' = Words THEN (IF op = "write" THEN "busy" ELSE "ready") ELSE "data"]
        /\ cmd' = [cmd EXCEPT !["master"] = IF w' = Words /\ op = "write" THEN "commit" ELSE @]
    BY <2>1, <2>2, TransferInside
  <2>4. /\ phase'["slave"] = phase["slave"] /\ cmd'["slave"] = cmd["slave"]
        /\ phase'["master"] = (IF w' = Words THEN (IF op = "write" THEN "busy" ELSE "ready") ELSE "data")
        /\ cmd'["master"] = (IF w' = Words /\ op = "write" THEN "commit" ELSE op)
    BY <2>2, <2>3 DEF TypeOK
  <2>5. CallOK'
    BY <2>1, <2>2, <2>3, <2>4 DEF CallOK, Calling, Waiting, TypeOK
  <2> QED BY <1>3, <2>4, <2>5
<1>10. CASE SectorDone
  <2>1. /\ pc = "words" /\ w = Words /\ i' = i + 1 /\ pc' = (IF i' < n THEN "command" ELSE "done")
        /\ UNCHANGED <<ata_pm, op, lba, n, sel, phase, cmd, sect, at, early>>
    BY <1>10 DEF SectorDone, At, SectorEnd, drives, call
  <2>2. phase["master"] # "data" /\ (phase["master"] = "busy" => cmd["master"] = "commit")
    BY <2>1 DEF CallOK, TypeOK
  <2>3. CallOK'
    BY <2>1, <2>2 DEF CallOK, Calling, Waiting, TypeOK
  <2> QED BY <1>3, <2>1, <2>3
<1>11. CASE Return
  BY <1>3, <1>11 DEF Return, At, drives, call, CallOK, Calling, Waiting
<1> QED BY <1>4, <1>5, <1>6, <1>7, <1>8, <1>9, <1>10, <1>11

-----------------------------------------------------------------------------
(* What a drive reads is what its sector holds; what it commits is what    *)
(* it was sent.                                                            *)
LEMMA DiskData ==
    ASSUME IInv, ~early, ~lost', NEW d \in Drive, DriveReady(d) \/ DriveCommits(d) \/ DriveFails(d)
    PROVE  DataOK'
<1> USE DEF IInv, Drive
<1>1. ~lost /\ DataOK
  <2>1. lost \in BOOLEAN
    BY DEF TypeOK
  <2> QED BY <2>1 DEF DriveReady, DriveCommits, DriveFails
<1>2. UNCHANGED <<pc, w, op, lba, n, i, buf, sel, cmd, sect, at, image, early>>
  BY DEF DriveReady, DriveCommits, DriveFails, call
<1>3. Ended' = Ended /\ \A s \in Sector : Written(s)' = Written(s)
  BY <1>2 DEF Ended, Written
<1>4. ASSUME held' = held PROVE \A x \in Word : pc' = "words" /\ op' = "write" /\ x < w' => held'[x] = buf'[i'][x]
  BY <1>1, <1>2, <1>4 DEF DataOK
<1>5. pc' \in Calling /\ op' = "read" => \A k \in Index : k < i' => buf'[k] = image'[lba' + k]
  BY <1>1, <1>2 DEF DataOK
<1>6. CASE DriveReady(d)
  <2>1. /\ phase[d] = "busy" /\ cmd[d] # "commit" /\ phase' = [phase EXCEPT ![d] = "data"] /\ disk' = disk
        /\ held' = IF cmd[d] = "read" THEN disk[sect] ELSE held
    BY <1>6 DEF DriveReady
  <2>2. ~Committing' /\ (d = "master" => ~Committing) /\ (d # "master" => Committing' = Committing)
    BY <1>2, <2>1 DEF Committing, ProbeOK, Settled, TypeOK, CallOK, Asked, Probing, Probee
  <2>3. pc # "words"
    BY <2>1 DEF CallOK, ProbeOK, Settled, Asked, Probing, TypeOK
  <2>4. d = "master" \/ pc \notin Calling
    BY <2>1 DEF ProbeOK, Settled, Asked, Calling
  <2>5. ~Committing /\ \A s \in Sector : disk[s] = Written(s)
    BY <1>1, <2>1, <2>2 DEF DataOK, Committing, CallOK, ProbeOK, TypeOK
  <2>6. op = "read" /\ pc \in Waiting => held' = disk[sect]
    BY <2>1, <2>4 DEF CallOK, Waiting, Calling
  <2> QED BY <1>2, <1>3, <1>5, <2>1, <2>2, <2>3, <2>5, <2>6 DEF DataOK
<1>7. CASE DriveCommits(d)
  <2>1. d = "master" /\ Committing /\ disk' = [disk EXCEPT ![sect] = held] /\ held' = held
        /\ phase' = [phase EXCEPT ![d] = "ready"]
    BY <1>7 DEF DriveCommits, Committing, ProbeOK
  <2>2. ~Committing' /\ phase'["master"] = "ready"
    BY <2>1 DEF Committing, TypeOK
  <2>3. \A s \in Sector : disk'[s] = IF s = sect THEN held ELSE disk[s]
    BY <2>1 DEF TypeOK
  <2>4. \A s \in Sector : disk'[s] = Written(s)
    BY <1>1, <2>1, <2>3 DEF DataOK
  <2>5. ~(pc = "words" /\ op = "read") /\ pc \notin Waiting
    BY <2>1 DEF Committing, CallOK, TypeOK, Waiting
  <2> QED BY <1>1, <1>2, <1>3, <1>4, <1>5, <2>1, <2>2, <2>4, <2>5 DEF DataOK
<1>8. CASE DriveFails(d)
  <2>1. phase[d] = "busy" /\ cmd[d] # "commit" /\ phase' = [phase EXCEPT ![d] = "failed"]
        /\ disk' = disk /\ held' = held
    BY <1>8 DEF DriveFails
  <2>2. Committing' = Committing /\ (phase'["master"] = "data" => phase["master"] = "data")
    BY <1>2, <2>1 DEF Committing, TypeOK
  <2> QED BY <1>1, <1>2, <1>3, <1>4, <1>5, <2>1, <2>2 DEF DataOK
<1> QED BY <1>6, <1>7, <1>8

(* The probe leaves the disk alone.                                        *)
LEMMA ProbeData ==
    ASSUME IInv, DataOK, Identify \/ FirstStatus \/ IdentifyPoll \/ IdentifyFailed
                 \/ IdentifyOnline \/ IdentifyWord \/ IdentifyEnd
    PROVE  DataOK'
<1> USE DEF IInv, Drive
<1>1. pc \in Probing /\ i \in {0, 1} /\ cmd["master"] \in {"none", "identify"}
      /\ disk' = disk /\ image' = image
  BY DEF Identify, FirstStatus, IdentifyPoll, IdentifyFailed, IdentifyOnline, IdentifyWord, IdentifyEnd,
         At, ProbeOK, Probing, TypeOK, drives
<1>2. cmd'["master"] \in {"none", "identify"}
  <2>1. CASE Identify
    BY <1>1, <2>1 DEF Identify, Command, TypeOK
  <2>2. CASE IdentifyWord
    <3>1. cmd[sel] # "write"
      BY <1>1 DEF ProbeOK, TypeOK
    <3> QED BY <1>1, <2>2, <3>1 DEF IdentifyWord, Transfer, TypeOK
  <2>3. CASE FirstStatus \/ IdentifyPoll \/ IdentifyFailed \/ IdentifyOnline \/ IdentifyEnd
    BY <1>1, <2>3 DEF FirstStatus, IdentifyPoll, IdentifyFailed, IdentifyOnline, IdentifyEnd, drives
  <2> QED BY <2>1, <2>2, <2>3
<1>3. pc' \in Probing \cup {"idle"}
  BY DEF Identify, FirstStatus, IdentifyPoll, IdentifyFailed, IdentifyOnline, IdentifyWord, IdentifyEnd,
         At, Probing, Probed
<1>4. ~Committing /\ ~Committing' /\ ~Ended /\ ~Ended'
  BY <1>1, <1>2, <1>3 DEF Committing, Ended, Probing
<1>5. \A s \in Sector : disk'[s] = Written(s)'
  BY <1>1, <1>4 DEF DataOK, Written
<1> QED BY <1>3, <1>4, <1>5 DEF DataOK, Probing, Calling, Waiting

(* What is transferred is the sector that was addressed, word by word.     *)
LEMMA CallData ==
    ASSUME IInv, DataOK, ~early', Call \/ SendCommand \/ PollBusy \/ PollError \/ PollReady
                 \/ ReadWord \/ WriteWord \/ SectorDone \/ Return
    PROVE  DataOK'
<1> USE SizeAssumption, BoundAssumption DEF IInv, Drive
<1>1. CASE Call
  BY <1>1 DEF Call, At, drives, DataOK, Committing, Written, Ended, Calling, Waiting, Index
<1>2. CASE SendCommand
  <2>1. /\ pc = "command" /\ pc' = "retry"
        /\ UNCHANGED <<op, lba, n, i, w, buf, held, disk, image>>
        /\ phase["master"] # "busy"
    BY <1>2 DEF SendCommand, Command, At, call
  <2>2. phase' = [phase EXCEPT !["master"] = "busy"] /\ cmd' = [cmd EXCEPT !["master"] = op] /\ sect' = lba + i
    <3>1. phase["master"] \in {"ready", "failed"}
      BY <2>1 DEF CallOK, Calling, TypeOK
    <3> QED BY <1>2, <3>1 DEF SendCommand, Command
  <2>3. ~Committing /\ ~Committing' /\ ~Ended /\ ~Ended' /\ phase'["master"] # "data"
    BY <2>1, <2>2 DEF Committing, Ended, TypeOK
  <2> QED BY <2>1, <2>3 DEF DataOK, Written, Calling, Waiting
<1>3. CASE PollBusy \/ PollError
  BY <1>3 DEF PollBusy, PollError, At, drives, call, DataOK, Committing, Written, Ended, Calling, Waiting
<1>4. CASE PollReady
  <2>1. phase["master"] = "data"
    <3>1. phase[sel] \in {"none", "ready", "busy", "data", "failed"} /\ pc = "retry2"
      BY <1>4 DEF TypeOK, PollReady, At
    <3> QED BY <1>4, <3>1 DEF PollReady, Status, CallOK, Waiting
  <2>2. /\ pc = "retry2" /\ pc' = "words" /\ w' = 0 /\ Words # 0
        /\ UNCHANGED <<op, lba, n, i, buf, phase, cmd, sect, held, disk, image>>
    BY <1>4, SizeAssumption DEF PollReady, At, drives, call
  <2>3. \A x \in Word : ~(x < w')
    BY <2>2 DEF Word
  <2>4. ~Ended /\ ~Ended' /\ Committing' = Committing
    BY <2>2 DEF Ended, Committing
  <2> QED BY <2>1, <2>2, <2>3, <2>4 DEF DataOK, Written, Calling, Waiting
<1>5. ASSUME ReadWord \/ WriteWord
      PROVE  /\ pc = "words" /\ w < Words /\ w' = w + 1 /\ w \in Word /\ at = w
             /\ sel = "master" /\ phase["master"] = "data" /\ cmd["master"] = op /\ sect = lba + i
             /\ i \in Index /\ sect \in Sector
             /\ UNCHANGED <<pc, op, lba, n, i, sect, disk, image>>
             /\ phase'["master"] = IF w' = Words THEN (IF op = "write" THEN "busy" ELSE "ready") ELSE "data"
             /\ cmd'["master"] = IF w' = Words /\ op = "write" THEN "commit" ELSE op
  <2>1. /\ pc = "words" /\ w < Words /\ w' = w + 1 /\ Transfer
        /\ UNCHANGED <<pc, op, lba, n, i, sect, disk, image>>
    BY <1>5 DEF ReadWord, WriteWord, At, SectorEnd, call
  <2>2. /\ phase["master"] = "data" /\ at = w /\ cmd["master"] = op /\ sel = "master" /\ w \in 0 .. Words
        /\ sect = lba + i /\ i < n
    BY <2>1 DEF CallOK, TypeOK, Calling
  <2>3. /\ at' = w'
        /\ phase' = [phase EXCEPT !["master"] =
               IF w' = Words THEN (IF op = "write" THEN "busy" ELSE "ready") ELSE "data"]
        /\ cmd' = [cmd EXCEPT !["master"] = IF w' = Words /\ op = "write" THEN "commit" ELSE @]
    BY <2>1, <2>2, TransferInside
  <2>4. i \in Index /\ w \in Word /\ sect \in Sector
    BY <2>1, <2>2 DEF TypeOK, Index, Word, CallOK, Calling
  <2> QED BY <2>1, <2>2, <2>3, <2>4 DEF TypeOK
<1>6. CASE ReadWord
  <2>1. op = "read" /\ held' = held /\ buf' = [buf EXCEPT ![i][w] = held[w]]
    BY <1>5, <1>6 DEF ReadWord
  <2>2. /\ buf'[i][w] = held[w]
        /\ \A x \in Word : x # w => buf'[i][x] = buf[i][x]
        /\ \A k \in Index : k # i => buf'[k] = buf[k]
    BY <1>5, <1>6, <2>1 DEF TypeOK, Content
  <2>3. ~Committing /\ ~Committing' /\ ~Ended /\ ~Ended'
    BY <1>5, <1>6, <2>1 DEF Committing, Ended
  <2>4. \A x \in Word : x < w' => buf'[i][x] = held[x]
    BY <1>5, <1>6, <2>1, <2>2 DEF DataOK, Word
  <2>5. \A k \in Index : k < i => buf'[k] = image[lba + k]
    BY <1>5, <1>6, <2>1, <2>2 DEF DataOK, Index, TypeOK, Calling
  <2> QED BY <1>5, <1>6, <2>1, <2>3, <2>4, <2>5 DEF DataOK, Written
<1>7. CASE WriteWord
  <2>1. op = "write" /\ buf' = buf /\ held' = [held EXCEPT ![w] = buf[i][w]]
    BY <1>5, <1>7 DEF WriteWord
  <2>2. held'[w] = buf[i][w] /\ \A x \in Word : x # w => held'[x] = held[x]
    BY <1>5, <1>7, <2>1 DEF TypeOK, Content
  <2>3. \A x \in Word : x < w' => held'[x] = buf[i][x]
    BY <1>5, <1>7, <2>1, <2>2 DEF DataOK, Word
  <2>4. ~Committing /\ ~Ended
    BY <1>5, <1>7, <2>1 DEF Committing, Ended
  <2>5. \A s \in Sector : disk[s] = image[s]
    BY <2>4 DEF DataOK, Written
  <2>6. CASE w' # Words
    <3>1. ~Committing' /\ ~Ended'
      BY <1>5, <1>7, <2>6 DEF Committing, Ended
    <3> QED BY <1>5, <1>7, <2>1, <2>3, <2>5, <3>1 DEF DataOK, Written
  <2>7. CASE w' = Words
    <3>1. Committing' /\ Ended'
      BY <1>5, <1>7, <2>1, <2>7 DEF Committing, Ended
    <3>2. held' = buf[i]
      <4>1. \A x \in Word : held'[x] = buf[i][x]
        BY <2>3, <2>7 DEF Word
      <4>2. buf[i] \in Content /\ held \in Content
        BY <1>5, <1>7 DEF TypeOK
      <4>3. held' = [x \in Word |-> held'[x]] /\ buf[i] = [x \in Word |-> buf[i][x]]
        BY <2>1, <4>2 DEF Content
      <4> QED BY <4>1, <4>3
    <3> QED BY <1>5, <1>7, <2>1, <2>3, <2>5, <3>1, <3>2 DEF DataOK, Written
  <2> QED BY <2>6, <2>7
<1>8. CASE SectorDone
  <2>1. /\ pc = "words" /\ w = Words /\ i' = i + 1 /\ pc' \in {"command", "done"}
        /\ UNCHANGED <<op, lba, n, phase, cmd, sect, held, disk, buf>>
        /\ image' = IF op = "write" THEN [image EXCEPT ![lba + i] = buf[i]] ELSE image
    BY <1>8 DEF SectorDone, At, SectorEnd, drives, call
  <2>2. sect = lba + i /\ i \in Index /\ sect \in Sector /\ op \in {"read", "write"}
    BY <2>1 DEF CallOK, Calling, TypeOK, Index
  <2>3. Committing' = Committing /\ ~Ended' /\ pc' \notin Waiting
    BY <2>1 DEF Committing, Ended, Waiting
  <2>4. \A s \in Sector : image'[s] = Written(s)
    BY <2>1, <2>2 DEF Written, Ended, TypeOK
  <2>5. \A s \in Sector : Written(s)' = image'[s]
    BY <2>3 DEF Written
  <2>6. \A s \in Sector : (IF Committing' /\ s = sect' THEN held' ELSE disk'[s]) = Written(s)'
    BY <2>1, <2>3, <2>4, <2>5 DEF DataOK
  <2>7. ASSUME op = "read" PROVE \A k \in Index : k < i + 1 => buf[k] = image[lba + k]
    <3>1. buf[i] = held
      <4>1. \A x \in Word : buf[i][x] = held[x]
        BY <2>1, <2>7 DEF DataOK, Word
      <4>2. buf[i] \in Content /\ held \in Content
        BY <2>2 DEF TypeOK
      <4>3. held = [x \in Word |-> held[x]] /\ buf[i] = [x \in Word |-> buf[i][x]]
        BY <4>2 DEF Content
      <4> QED BY <4>1, <4>3
    <3>2. held = image[sect]
      <4>1. ~Committing /\ ~Ended
        BY <2>1, <2>7 DEF CallOK, Committing, Ended
      <4> QED BY <2>1, <2>2, <2>7, <4>1 DEF DataOK, Written
    <3>3. \A k \in Index : k < i => buf[k] = image[lba + k]
      BY <2>1, <2>7 DEF DataOK, Calling
    <3> QED BY <2>2, <3>1, <3>2, <3>3 DEF Index
  <2> QED BY <2>1, <2>3, <2>6, <2>7 DEF DataOK
<1>9. CASE Return
  BY <1>9 DEF Return, At, drives, call, DataOK, Committing, Written, Ended, Calling, Waiting
<1> QED BY <1>1, <1>2, <1>3, <1>4, <1>6, <1>7, <1>8, <1>9

-----------------------------------------------------------------------------
(* The registers agree with the driver at every poll and every word, and   *)
(* the sectors with what was reported.                                     *)
THEOREM AtaInductive == Spec => []IInv
<1>1. IInv /\ [Next]_vars => IInv'
  <2> SUFFICES ASSUME IInv, [Next]_vars PROVE IInv'
    OBVIOUS
  <2>1. CASE UNCHANGED vars
    BY <2>1 DEF vars, call, drives, IInv, TypeOK, ProbeOK, CallOK, DataOK, Settled, Probee,
                Committing, Ended, Written
  <2>2. ASSUME NEW d \in Drive, DriveReady(d) \/ DriveCommits(d) \/ DriveFails(d)
        PROVE  IInv'
    <3>1. early' = early
      BY <2>2 DEF DriveReady, DriveCommits, DriveFails
    <3> QED BY <2>2, <3>1, DiskType, DiskControl, DiskData DEF IInv
  <2>3. CASE Driver \/ Call
    <3>1. TypeOK' /\ (ProbeOK /\ CallOK)'
      BY <2>3, DriverType, ProbeControl, CallControl DEF Driver
    <3>2. lost' = lost /\ (~early' => ~early)
      <4>1. early \in BOOLEAN /\ early' \in BOOLEAN
        BY <3>1 DEF IInv, TypeOK
      <4> QED BY <2>3, <4>1 DEF Driver, Identify, FirstStatus, IdentifyPoll, IdentifyFailed, IdentifyOnline,
                   IdentifyWord, IdentifyEnd, Call, SendCommand, PollBusy, PollError, PollReady,
                   ReadWord, WriteWord, SectorDone, Return, Command
    <3>3. ASSUME ~early', ~lost' PROVE DataOK'
      BY <2>3, <3>2, <3>3, ProbeData, CallData DEF Driver, IInv
    <3> QED BY <3>1, <3>3 DEF IInv
  <2> QED BY <2>1, <2>2, <2>3 DEF Next, Disk
<1> QED BY <1>1, InitIInv, PTL DEF Spec

(* ata_read returns, and the disk holds or is about to hold, sector by     *)
(* sector what ata_write reported, and no transfer leaves its sector or    *)
(* its buffer, unless a command overtook a commit or a commit failed.      *)
THEOREM SectorsStayRight == Spec => []DiskSound
<1>1. IInv => DiskSound
  <2> SUFFICES ASSUME IInv, ~early, ~lost
               PROVE  /\ \A s \in Sector :
                           \/ disk[s] = image[s]
                           \/ s = sect /\ phase["master"] = "busy" /\ cmd["master"] = "commit" /\ held = image[s]
                           \/ s = sect /\ op = "write" /\ pc = "words" /\ w = SectorEnd
                      /\ pc = "done" /\ op = "read" => \A k \in 0 .. n - 1 : buf[k] = image[lba + k]
    BY DEF IInv, DiskSound, SectorsRight
  <2>1. DataOK /\ TypeOK /\ CallOK
    BY DEF IInv
  <2>2. ASSUME NEW s \in Sector
        PROVE  \/ disk[s] = image[s]
               \/ s = sect /\ phase["master"] = "busy" /\ cmd["master"] = "commit" /\ held = image[s]
               \/ s = sect /\ op = "write" /\ pc = "words" /\ w = SectorEnd
    BY <2>1 DEF DataOK, Written, Ended, Committing, SectorEnd
  <2>3. ASSUME pc = "done", op = "read", NEW k \in 0 .. n - 1
        PROVE  buf[k] = image[lba + k]
    <3>1. k \in Index /\ k < i
      BY <2>1, <2>3, SizeAssumption, BoundAssumption DEF TypeOK, CallOK, Index
    <3> QED BY <2>1, <2>3, <3>1 DEF DataOK, Calling
  <2> QED BY <2>2, <2>3
<1> QED BY <1>1, AtaInductive, PTL
=============================================================================
