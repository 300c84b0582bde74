-------------------------------- MODULE Ata --------------------------------
(***************************************************************************)
(* The ATA driver (src/drivers/ata.c) on the primary bus: the probe that   *)
(* identifies the master and then the slave, and the sector transfers that *)
(* ata_read and ata_write offer through the device table.  All of it is    *)
(* polled by the one process that calls.  The drives are external: they    *)
(* take a command when they are not busy, may fail any command, and commit *)
(* a written sector some time after its last word.                         *)
(***************************************************************************)
EXTENDS Integers

CONSTANTS
    Sectors,        \* sectors of the master
    Words,          \* 256, the words of a sector
    Calls,          \* bound: calls of read and write
    MaxSects        \* bound: numsects of a call

ASSUME SizeAssumption  == Sectors \in Nat \ {0} /\ Words \in Nat \ {0}
ASSUME BoundAssumption == Calls \in Nat /\ MaxSects \in 1 .. Sectors

Drive  == {"master", "slave"}
Sector == 0 .. Sectors - 1
Word   == 0 .. Words - 1
Index  == 0 .. MaxSects - 1

VARIABLES
    pc, status, w,          \* the driver: label, status as last read, word counter
    ata_pm,                 \* was the master registered?
    i,                      \* drives probed; later, sectors of the call done
    op, lba, n, buf,        \* a call: what, first sector, numsects, buffer
    calls,                  \* calls made
    sel, phase, cmd,        \* the bus: drive selected; per drive, state and command
    sect, at,               \* the drive in use: sector addressed, words done
    held, disk,             \* the master: sector buffer, sectors
    image,                  \* history: what ata_write reported written
    early, lost             \* history: a command sent to a busy drive; a write failed

call   == <<op, lba, n, calls>>
drives == <<phase, cmd, sect, at, held, disk>>
vars   == <<pc, status, w, ata_pm, call, i, buf, sel, drives, image, early, lost>>

\* A word is named by the call that wrote it, its sector in the call, its place.
Content == [Word -> (0 .. Calls) \X Index \X Word]
Zeros   == [x \in Word |-> <<0, 0, x>>]

Labels == {"probe", "first", "busy", "decide", "ident",
           "idle", "command", "retry", "retry2", "words", "done", "panic"}

TypeOK ==
    /\ pc \in Labels /\ status \subseteq {"BSY", "DRDY", "DRQ", "ERR"}
    /\ w \in 0 .. Words /\ ata_pm \in BOOLEAN
    /\ op \in {"read", "write"} /\ lba \in Sector /\ i \in (0 .. MaxSects) \cup {1, 2} /\ n \in 0 .. MaxSects
    /\ buf \in [Index -> Content] /\ calls \in 0 .. Calls
    /\ sel \in Drive
    /\ phase \in [Drive -> {"none", "ready", "busy", "data", "failed"}]
    /\ cmd \in [Drive -> {"none", "identify", "read", "write", "commit"}]
    /\ sect \in Sector /\ at \in 0 .. Words
    /\ held \in Content /\ {disk, image} \subseteq [Sector -> Content]
    /\ {early, lost} \subseteq BOOLEAN

Init ==
    /\ pc = "probe" /\ status = {} /\ w = 0 /\ ata_pm = FALSE
    /\ op = "read" /\ lba = 0 /\ i = 0 /\ n = 0 /\ calls = 0
    /\ buf = [k \in Index |-> Zeros]
    /\ sel = "master"
    /\ phase \in [Drive -> {"none", "ready"}] /\ cmd = [d \in Drive |-> "none"]
    /\ sect = 0 /\ at = 0 /\ held = Zeros
    /\ disk = [s \in Sector |-> Zeros] /\ image = disk
    /\ early = FALSE /\ lost = FALSE

-----------------------------------------------------------------------------
(* The drives.                                                             *)

\* What the status register may read.  Without a drive it is 0, or the bus
\* floats with only BSY pulled down.
Status ==
    CASE phase[sel] = "none"   -> {{}, {"DRDY", "DRQ", "ERR"}}
      [] phase[sel] = "ready"  -> {{"DRDY"}}
      [] phase[sel] = "busy"   -> {{"BSY"}}
      [] phase[sel] = "data"   -> {{"DRDY", "DRQ"}}
      [] phase[sel] = "failed" -> {{"DRDY", "ERR"}}

\* A busy drive, and one in the middle of a transfer, takes no command.
Command(d, c, s) ==
    /\ sel' = d
    /\ IF phase[d] \in {"ready", "failed"}
       THEN /\ phase' = [phase EXCEPT ![d] = "busy"] /\ cmd' = [cmd EXCEPT ![d] = c]
            /\ sect' = s /\ at' = 0
       ELSE UNCHANGED <<phase, cmd, sect, at>>
    /\ early' = (early \/ phase[d] = "busy")

DriveReady(d) ==
    /\ phase[d] = "busy" /\ cmd[d] # "commit"
    /\ phase' = [phase EXCEPT ![d] = "data"]
    /\ held' = IF cmd[d] = "read" THEN disk[sect] ELSE held
    /\ UNCHANGED <<pc, status, w, ata_pm, call, i, buf, sel, cmd, sect, at, disk, image, early, lost>>

DriveCommits(d) ==
    /\ phase[d] = "busy" /\ cmd[d] = "commit"
    /\ phase' = [phase EXCEPT ![d] = "ready"]
    /\ disk' = [disk EXCEPT ![sect] = held]
    /\ UNCHANGED <<pc, status, w, ata_pm, call, i, buf, sel, cmd, sect, at, held, image, early, lost>>

DriveFails(d) ==
    /\ phase[d] = "busy"
    /\ phase' = [phase EXCEPT ![d] = "failed"]
    /\ lost' = (lost \/ cmd[d] = "commit")
    /\ UNCHANGED <<pc, status, w, ata_pm, call, i, buf, sel, cmd, sect, at, held, disk, image, early>>

\* One word through the data port.  After the last one the drive is done,
\* or commits what it was sent.
Transfer ==
    IF phase[sel] # "data" THEN UNCHANGED <<phase, cmd, at>>
    ELSE LET last == at + 1 = Words
             sent == last /\ cmd[sel] = "write"
         IN  /\ at' = at + 1
             /\ phase' = [phase EXCEPT ![sel] = IF sent THEN "busy" ELSE IF last THEN "ready" ELSE @]
             /\ cmd' = [cmd EXCEPT ![sel] = IF sent THEN "commit" ELSE @]

-----------------------------------------------------------------------------
At(l) == pc = l

\* Mutant: one word too many.
SectorEnd_over == Words + 1

\* ide_buf and the caller's buffer take a whole sector.
SectorEnd == Words

(* ata_probe and ide_identify.                                             *)

\* Where ide_identify returns to.
Probed == IF i = 0 THEN "probe" ELSE "idle"

Identify ==
    /\ At("probe") /\ pc' = "first"
    /\ Command(IF i = 0 THEN "master" ELSE "slave", "identify", sect)
    /\ UNCHANGED <<status, w, ata_pm, call, i, buf, held, disk, image, lost>>

FirstStatus ==
    /\ At("first")
    /\ status' \in Status
    /\ \/ status' = {} /\ pc' = Probed /\ i' = i + 1
       \/ status' # {} /\ pc' = "busy" /\ UNCHANGED i
    /\ UNCHANGED <<w, ata_pm, call, buf, sel, drives, image, early, lost>>

\* poll until BSY is clear; what was read is not kept.
IdentifyPoll ==
    /\ At("busy")
    /\ \E s \in Status : "BSY" \notin s
    /\ pc' = "decide"
    /\ UNCHANGED <<status, w, ata_pm, call, i, buf, sel, drives, image, early, lost>>

\* Mutant: waits for DRQ before it looks at ERR.
IdentifyFailed_late ==
    /\ At("decide") /\ {"DRQ", "ERR"} \subseteq status
    /\ pc' = Probed /\ i' = i + 1
    /\ UNCHANGED <<status, w, ata_pm, call, buf, sel, drives, image, early, lost>>

\* pm_start_read, on the first status; without ERR and DRQ it loops here.
IdentifyFailed ==
    /\ At("decide") /\ "ERR" \in status
    /\ pc' = Probed /\ i' = i + 1
    /\ UNCHANGED <<status, w, ata_pm, call, buf, sel, drives, image, early, lost>>

IdentifyOnline ==
    /\ At("decide") /\ "ERR" \notin status /\ "DRQ" \in status
    /\ pc' = "ident" /\ w' = 0
    /\ UNCHANGED <<status, ata_pm, call, i, buf, sel, drives, image, early, lost>>

IdentifyWord ==
    /\ At("ident") /\ w < SectorEnd
    /\ Transfer /\ w' = w + 1
    /\ UNCHANGED <<pc, status, ata_pm, call, i, buf, sel, sect, held, disk, image, early, lost>>

\* The master is registered; the slave's answer is not used.
IdentifyEnd ==
    /\ At("ident") /\ w = SectorEnd
    /\ pc' = Probed /\ i' = i + 1
    /\ ata_pm' = (ata_pm \/ i = 0)
    /\ UNCHANGED <<status, w, call, buf, sel, drives, image, early, lost>>

-----------------------------------------------------------------------------
(* ata_read and ata_write, called through the device.                      *)

Call ==
    /\ At("idle") /\ ata_pm /\ calls < Calls
    /\ \E s \in Sector, k \in 1 .. MaxSects :
           s + k <= Sectors /\ lba' = s /\ n' = k
    /\ op' \in {"read", "write"}
    /\ calls' = calls + 1 /\ i' = 0 /\ pc' = "command"
    /\ buf' = [k \in Index |-> IF op' = "write" THEN [x \in Word |-> <<calls', k, x>>] ELSE Zeros]
    /\ UNCHANGED <<status, w, ata_pm, sel, drives, image, early, lost>>

\* Mutant: every sector of a call is addressed by its first.
SendCommand_stuck ==
    /\ At("command") /\ pc' = "retry"
    /\ Command("master", op, lba)
    /\ UNCHANGED <<status, w, ata_pm, call, i, buf, held, disk, image, lost>>

\* The registers and the command; nothing waits for the drive before it.
SendCommand ==
    /\ At("command") /\ pc' = "retry"
    /\ Command("master", op, lba + i)
    /\ UNCHANGED <<status, w, ata_pm, call, i, buf, held, disk, image, lost>>

\* ide_poll.
PollBusy ==
    /\ At("retry") /\ pc' = "retry2"
    /\ status' \in {s \in Status : "BSY" \notin s}
    /\ UNCHANGED <<w, ata_pm, call, i, buf, sel, drives, image, early, lost>>

PollError ==
    /\ At("retry2") /\ pc' = "panic"
    /\ status' \in {s \in Status : "ERR" \in s}
    /\ UNCHANGED <<w, ata_pm, call, i, buf, sel, drives, image, early, lost>>

PollReady ==
    /\ At("retry2") /\ pc' = "words" /\ w' = 0
    /\ status' \in {s \in Status : "ERR" \notin s /\ "DRQ" \in s}
    /\ UNCHANGED <<ata_pm, call, i, buf, sel, drives, image, early, lost>>

ReadWord ==
    /\ At("words") /\ op = "read" /\ w < SectorEnd
    /\ buf' = [buf EXCEPT ![i][w] = held[at]]
    /\ Transfer /\ w' = w + 1
    /\ UNCHANGED <<pc, status, ata_pm, call, i, sel, sect, held, disk, image, early, lost>>

WriteWord ==
    /\ At("words") /\ op = "write" /\ w < SectorEnd
    /\ held' = [held EXCEPT ![at] = buf[i][w]]
    /\ Transfer /\ w' = w + 1
    /\ UNCHANGED <<pc, status, ata_pm, call, i, buf, sel, sect, disk, image, early, lost>>

\* 400 ns later the sector counts as read or written.
SectorDone ==
    /\ At("words") /\ w = SectorEnd
    /\ i' = i + 1
    /\ pc' = IF i' < n THEN "command" ELSE "done"
    /\ image' = IF op = "write" THEN [image EXCEPT ![lba + i] = buf[i]] ELSE image
    /\ UNCHANGED <<status, w, ata_pm, call, buf, sel, drives, early, lost>>

Return ==
    /\ At("done") /\ pc' = "idle"
    /\ UNCHANGED <<status, w, ata_pm, call, i, buf, sel, drives, image, early, lost>>

-----------------------------------------------------------------------------
Driver ==
    \/ Identify \/ FirstStatus \/ IdentifyPoll \/ IdentifyFailed \/ IdentifyOnline
    \/ IdentifyWord \/ IdentifyEnd
    \/ SendCommand \/ PollBusy \/ PollError \/ PollReady
    \/ ReadWord \/ WriteWord \/ SectorDone \/ Return

Disk == \E d \in Drive : DriveReady(d) \/ DriveCommits(d) \/ DriveFails(d)

Next == Driver \/ Call \/ Disk

Spec == Init /\ [][Next]_vars

\* The process runs again and again (NobodyStarves of Tasking), and a drive
\* finishes what it was told.  Nobody has to call.
Fairness == WF_vars(Driver) /\ WF_vars(Disk)

-----------------------------------------------------------------------------
(* What must hold                                                          *)

(* What ata_write reported written is on the disk, or in the drive on its  *)
(* way there, sector by sector and word by word, and ata_read returns it,  *)
(* unless a command was sent before the drive had committed the sector     *)
(* before (ata_write_one does not wait for that), or a commit failed after *)
(* ata_write_one had returned.                                             *)
SectorsRight ==
    ~early /\ ~lost =>
        /\ \A s \in Sector :
               \/ disk[s] = image[s]
               \/ s = sect /\ phase["master"] = "busy" /\ cmd["master"] = "commit" /\ held = image[s]
               \/ s = sect /\ op = "write" /\ pc = "words" /\ w = SectorEnd
        /\ pc = "done" /\ op = "read" => \A k \in 0 .. n - 1 : buf[k] = image[lba + k]

(* No transfer leaves its sector or its buffer, and what it moves is right. *)
DiskSound == TypeOK /\ SectorsRight

\* The first status of an IDENTIFY had neither ERR nor DRQ: it is never
\* read again.
Spinning == pc \in {"busy", "decide"} /\ status \cap {"ERR", "DRQ"} = {}

(* The probe ends, and so does every call, unless the drive was busy when  *)
(* it was first looked at after IDENTIFY, or was sent a command while it   *)
(* was busy.                                                               *)
CallsEnd == <>[](pc \in {"idle", "panic"} \/ Spinning \/ early)
=============================================================================
