---------------------------- MODULE FoundBlocks -----------------------------
(***************************************************************************)
(* The history of found blocks of stratum/server.go: foundBlocks in memory *)
(* under blocksMu and data/found_blocks.json on disk.  recordFoundBlock    *)
(* prepends a block and saves; a save copies the history under a read      *)
(* lock, encodes it, and only then takes saveMu for os.WriteFile, which    *)
(* truncates the file before it writes.  It runs in the goroutine of the   *)
(* session that found the block, so saves are concurrent, and main does    *)
(* not wait for them: the process may end between any two steps.           *)
(***************************************************************************)
EXTENDS Integers, Sequences

CONSTANTS
    Session,        \* the goroutines that record blocks
    Block,          \* the blocks the miners of the pool find
    MaxFoundBlocks, \* length of the history, 1000 in the code
    Nobody,         \* saveMu is not held
    Torn,           \* contents of a file that does not parse
    WriteMayFail    \* whether os.WriteFile may return an error

ASSUME FoundBlocksAssumption ==
    /\ MaxFoundBlocks \in Nat \ {0}
    /\ Nobody \notin Session
    /\ Torn \notin Seq(Block)
    /\ WriteMayFail \in BOOLEAN

VARIABLES
    foundBlocks,    \* the history, newest first
    disk,           \* the file: a history, or Torn
    saveMu,         \* the session whose goroutine writes the file, or Nobody
    spc,            \* where each session stands in recordFoundBlock
    snapshot,       \* the copy its save is going to write
    recorded,       \* history: every block recorded since the last load,
                    \*   newest first, on top of what was loaded
    disturbed       \* history: since the last load a save overlapped another
                    \*   or could not write

fbVars == <<foundBlocks, disk, saveMu, spc, snapshot, recorded, disturbed>>

trimFoundBlocks(blocks) ==
    IF Len(blocks) > MaxFoundBlocks THEN SubSeq(blocks, 1, MaxFoundBlocks) ELSE blocks

FBInit ==
    /\ foundBlocks = << >> /\ disk = << >> /\ recorded = << >>
    /\ saveMu = Nobody
    /\ spc = [s \in Session |-> "idle"]
    /\ snapshot = [s \in Session |-> << >>]
    /\ disturbed = FALSE

Step(s, from, to) ==
    /\ spc[s] = from
    /\ spc' = [spc EXCEPT ![s] = to]

(* Mutants: the block goes to the end of the list; the copy to be saved   *)
(* is taken before the block is added.                                    *)
RecordAtEnd(s, b) ==
    /\ Step(s, "idle", "recorded")
    /\ foundBlocks' = trimFoundBlocks(foundBlocks \o <<b>>)
    /\ recorded' = <<b>> \o recorded
    /\ UNCHANGED <<disk, saveMu, snapshot, disturbed>>

RecordAfterCopy(s, b) ==
    /\ Step(s, "idle", "copied")
    /\ snapshot' = [snapshot EXCEPT ![s] = foundBlocks]
    /\ foundBlocks' = trimFoundBlocks(<<b>> \o foundBlocks)
    /\ recorded' = <<b>> \o recorded
    /\ disturbed' = (disturbed \/ \E t \in Session : spc[t] \in {"copied", "writing"})
    /\ UNCHANGED <<disk, saveMu>>

(* recordFoundBlock, under blocksMu.                                      *)
Record(s, b) ==
    /\ Step(s, "idle", "recorded")
    /\ foundBlocks' = trimFoundBlocks(<<b>> \o foundBlocks)
    /\ recorded' = <<b>> \o recorded
    /\ UNCHANGED <<disk, saveMu, snapshot, disturbed>>

(* A save is under way from its copy until its write is over.             *)
Saving(s) == spc[s] \in {"copied", "writing"}

(* saveFoundBlocks: the copy, under blocksMu read-locked.                 *)
CopyHistory(s) ==
    /\ Step(s, "recorded", "copied")
    /\ snapshot' = [snapshot EXCEPT ![s] = foundBlocks]
    /\ disturbed' = (disturbed \/ \E t \in Session : Saving(t))
    /\ UNCHANGED <<foundBlocks, disk, saveMu, recorded>>

(* os.WriteFile under saveMu: opening the file fails, for want of the     *)
(* directory or of a permission say, which is logged; the file stays as   *)
(* it was.                                                                *)
FailOpen(s) ==
    /\ WriteMayFail /\ saveMu = Nobody
    /\ Step(s, "copied", "idle")
    /\ snapshot' = [snapshot EXCEPT ![s] = << >>]
    /\ disturbed' = TRUE
    /\ UNCHANGED <<foundBlocks, disk, saveMu, recorded>>

(* Or it is opened with truncation ...                                    *)
BeginWrite(s) ==
    /\ Step(s, "copied", "writing")
    /\ saveMu = Nobody
    /\ saveMu' = s
    /\ disk' = Torn
    /\ UNCHANGED <<foundBlocks, snapshot, recorded, disturbed>>

(* The write is over, with contents f in the file; saveMu is released.    *)
Close(s, f) ==
    /\ Step(s, "writing", "idle")
    /\ disk' = f
    /\ saveMu' = Nobody
    /\ snapshot' = [snapshot EXCEPT ![s] = << >>]
    /\ UNCHANGED <<foundBlocks, recorded>>

(* ... then the contents.                                                 *)
EndWrite(s) == Close(s, snapshot[s]) /\ UNCHANGED disturbed

(* Mutant: the error path returns with saveMu held.                       *)
FailWriteLocked(s) ==
    /\ WriteMayFail
    /\ Step(s, "writing", "idle")
    /\ snapshot' = [snapshot EXCEPT ![s] = << >>]
    /\ disturbed' = TRUE
    /\ UNCHANGED <<foundBlocks, disk, saveMu, recorded>>

(* The write fails, on a full disk say: it is logged, the file stays cut. *)
FailWrite(s) == WriteMayFail /\ Close(s, disk) /\ disturbed' = TRUE

(* The process ends and starts again: the goroutines are gone, and        *)
(* loadFoundBlocks takes the file, or begins with an empty history when   *)
(* the file does not parse, and saves that, which may fail like any save. *)
Loaded == IF disk = Torn THEN << >> ELSE trimFoundBlocks(disk)

Restart ==
    /\ foundBlocks' = Loaded /\ recorded' = Loaded
    /\ \/ disk' = (IF disk = Torn THEN << >> ELSE disk) /\ disturbed' = FALSE
       \/ disk = Torn /\ WriteMayFail /\ disk' = Torn /\ disturbed' = TRUE
    /\ saveMu' = Nobody
    /\ spc' = [s \in Session |-> "idle"]
    /\ snapshot' = [s \in Session |-> << >>]

Save(s) ==
    \/ CopyHistory(s) \/ FailOpen(s)
    \/ BeginWrite(s) \/ EndWrite(s) \/ FailWrite(s)

FBNext ==
    \/ Restart
    \/ \E s \in Session : Save(s) \/ \E b \in Block : Record(s, b)

FBSpec == FBInit /\ [][FBNext]_fbVars

-----------------------------------------------------------------------------
History == Seq(Block)

FBTypeOK ==
    /\ foundBlocks \in History
    /\ disk \in History \cup {Torn}
    /\ saveMu \in Session \cup {Nobody}
    /\ spc \in [Session -> {"idle", "recorded", "copied", "writing"}]
    /\ snapshot \in [Session -> History]
    /\ recorded \in History
    /\ disturbed \in BOOLEAN

(* The history as it was when its n newest blocks were still to come.     *)
Earlier(n) == trimFoundBlocks(SubSeq(recorded, n + 1, Len(recorded)))

(* The file is never a mixture: when it parses it is the history of some  *)
(* earlier moment, in order and without a gap, whatever saves ran         *)
(* concurrently, and what is in memory is the latest such history.        *)
DiskIsAnEarlierHistory ==
    /\ foundBlocks = Earlier(0)
    /\ disk # Torn => \E n \in 0 .. Len(recorded) : disk = Earlier(n)

(* Only the holder of saveMu has the file open, and outside a write the   *)
(* file parses unless a write failed.                                     *)
OneWriter ==
    /\ \A s \in Session : spc[s] = "writing" <=> saveMu = s
    /\ disk = Torn => saveMu # Nobody \/ disturbed

AllSaved == \A s \in Session : spc[s] = "idle"

(* When no save overlapped another and none failed, the file is up to     *)
(* date as soon as no recordFoundBlock is running.                        *)
QuietSavesAreComplete == AllSaved /\ ~disturbed => disk = foundBlocks

(* "recordFoundBlock prepends a block to the history and persists it"     *)
(* (stratum/server.go): when every call has returned and the file parses, *)
(* it holds the history.                                                  *)
EveryRecordPersists == AllSaved /\ disk # Torn => disk = foundBlocks
=============================================================================
