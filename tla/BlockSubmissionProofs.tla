----------------------- MODULE BlockSubmissionProofs ------------------------
(***************************************************************************)
(* Block submission for every number of sessions, blocks and restarts, and *)
(* for whatever the node answers.                                          *)
(***************************************************************************)
EXTENDS BlockSubmission, SequenceTheorems, TLAPS

(* The found-block history alone: every length of it and every             *)
(* interleaving of saves, failed writes and restarts.                      *)
LEMMA TrimFacts ==
    ASSUME NEW q \in History
    PROVE  /\ trimFoundBlocks(q) \in History
           /\ Len(trimFoundBlocks(q)) =
                 IF Len(q) > MaxFoundBlocks THEN MaxFoundBlocks ELSE Len(q)
           /\ \A i \in 1 .. Len(trimFoundBlocks(q)) : trimFoundBlocks(q)[i] = q[i]
           /\ Len(q) <= MaxFoundBlocks => trimFoundBlocks(q) = q
<1>1. Len(q) \in Nat /\ \A i \in 1 .. Len(q) : q[i] \in Block
  BY DEF History
<1>2. CASE Len(q) > MaxFoundBlocks
  <2>1. \A i \in 1 .. MaxFoundBlocks : q[i] \in Block
    BY <1>1, <1>2, FoundBlocksAssumption
  <2>2. /\ SubSeq(q, 1, MaxFoundBlocks) \in Seq(Block)
        /\ Len(SubSeq(q, 1, MaxFoundBlocks)) = MaxFoundBlocks
        /\ \A i \in 1 .. MaxFoundBlocks : SubSeq(q, 1, MaxFoundBlocks)[i] = q[i]
    BY <2>1, FoundBlocksAssumption, SubSeqProperties
  <2> QED
    BY <1>1, <1>2, <2>2, FoundBlocksAssumption DEF trimFoundBlocks, History
<1>3. CASE ~(Len(q) > MaxFoundBlocks)
  BY <1>1, <1>3, FoundBlocksAssumption DEF trimFoundBlocks, History
<1> QED
  BY <1>2, <1>3

LEMMA PrependFacts ==
    ASSUME NEW q \in History, NEW b \in Block
    PROVE  /\ <<b>> \o q \in History
           /\ Len(<<b>> \o q) = Len(q) + 1
           /\ (<<b>> \o q)[1] = b
           /\ \A i \in 1 .. Len(q) : (<<b>> \o q)[i + 1] = q[i]
<1>1. <<b>> \in Seq(Block) /\ Len(<<b>>) = 1 /\ <<b>>[1] = b
  OBVIOUS
<1> QED
  BY <1>1, ConcatProperties DEF History

(* Trimming before or after a block is prepended makes no difference.     *)
LEMMA TrimPrepend ==
    ASSUME NEW q \in History, NEW b \in Block
    PROVE  trimFoundBlocks(<<b>> \o trimFoundBlocks(q)) = trimFoundBlocks(<<b>> \o q)
<1> DEFINE t == trimFoundBlocks(q)
           u == trimFoundBlocks(<<b>> \o t)
           v == trimFoundBlocks(<<b>> \o q)
<1>1. /\ t \in History
      /\ Len(t) = IF Len(q) > MaxFoundBlocks THEN MaxFoundBlocks ELSE Len(q)
      /\ \A i \in 1 .. Len(t) : t[i] = q[i]
  BY TrimFacts
<1>2. /\ <<b>> \o t \in History /\ Len(<<b>> \o t) = Len(t) + 1
      /\ (<<b>> \o t)[1] = b
      /\ \A i \in 1 .. Len(t) : (<<b>> \o t)[i + 1] = t[i]
  BY <1>1, PrependFacts
<1>3. /\ <<b>> \o q \in History /\ Len(<<b>> \o q) = Len(q) + 1
      /\ (<<b>> \o q)[1] = b
      /\ \A i \in 1 .. Len(q) : (<<b>> \o q)[i + 1] = q[i]
  BY PrependFacts
<1>4. /\ u \in History
      /\ Len(u) = IF Len(<<b>> \o t) > MaxFoundBlocks THEN MaxFoundBlocks
                  ELSE Len(<<b>> \o t)
      /\ \A i \in 1 .. Len(u) : u[i] = (<<b>> \o t)[i]
  BY <1>2, TrimFacts
<1>5. /\ v \in History
      /\ Len(v) = IF Len(<<b>> \o q) > MaxFoundBlocks THEN MaxFoundBlocks
                  ELSE Len(<<b>> \o q)
      /\ \A i \in 1 .. Len(v) : v[i] = (<<b>> \o q)[i]
  BY <1>3, TrimFacts
<1>6. Len(q) \in Nat /\ Len(t) \in Nat
  BY <1>1 DEF History
<1> HIDE DEF t, u, v
<1>7. Len(u) = Len(v) /\ Len(u) \in Nat /\ Len(u) <= Len(t) + 1 /\ Len(t) <= Len(q)
  BY <1>1, <1>2, <1>3, <1>4, <1>5, <1>6, FoundBlocksAssumption
<1>8. ASSUME NEW i \in 1 .. Len(u)
      PROVE  u[i] = v[i]
  <2>1. u[i] = (<<b>> \o t)[i] /\ v[i] = (<<b>> \o q)[i]
    BY <1>4, <1>5, <1>7
  <2>2. CASE i = 1
    BY <1>2, <1>3, <2>1, <2>2
  <2>3. CASE i # 1
    <3>1. i - 1 \in 1 .. Len(t) /\ i - 1 \in 1 .. Len(q) /\ (i - 1) + 1 = i
      BY <1>6, <1>7, <2>3
    <3>2. (<<b>> \o t)[i] = t[i - 1] /\ (<<b>> \o q)[i] = q[i - 1]
      BY <1>2, <1>3, <3>1
    <3> QED
      BY <1>1, <2>1, <3>1, <3>2
  <2> QED
    BY <2>2, <2>3
<1>9. u = v
  BY <1>4, <1>5, <1>7, <1>8, SeqEqual DEF History
<1> QED
  BY <1>9 DEF t, u, v

-----------------------------------------------------------------------------
LEMMA FBTypes ==
    ASSUME FBTypeOK, [FBNext]_fbVars
    PROVE  FBTypeOK'
<1>1. << >> \in History
  BY EmptySeq DEF History
<1>2. CASE Restart
  <2>1. Loaded \in History
    BY <1>1, TrimFacts DEF Loaded, FBTypeOK
  <2> QED
    BY <1>1, <1>2, <2>1 DEF Restart, FBTypeOK
<1>3. ASSUME NEW s \in Session, NEW b \in Block, Record(s, b)
      PROVE  FBTypeOK'
  <2>1. <<b>> \o foundBlocks \in History /\ <<b>> \o recorded \in History
    BY PrependFacts DEF FBTypeOK
  <2> QED
    BY <1>3, <2>1, TrimFacts DEF Record, Step, FBTypeOK
<1>4. ASSUME NEW s \in Session, Save(s)
      PROVE  FBTypeOK'
  <2>1. CASE CopyHistory(s)
    BY <2>1 DEF CopyHistory, Step, FBTypeOK
  <2>2. CASE BeginWrite(s)
    BY <2>2 DEF BeginWrite, Step, FBTypeOK
  <2>3. CASE EndWrite(s)
    BY <1>1, <2>3 DEF EndWrite, Close, Step, FBTypeOK
  <2>4. CASE FailWrite(s)
    BY <1>1, <2>4 DEF FailWrite, Close, Step, FBTypeOK
  <2>5. CASE FailOpen(s)
    BY <1>1, <2>5 DEF FailOpen, Step, FBTypeOK
  <2> QED
    BY <1>4, <2>1, <2>2, <2>3, <2>4, <2>5 DEF Save
<1>5. CASE UNCHANGED fbVars
  BY <1>5 DEF fbVars, FBTypeOK
<1> QED
  BY <1>2, <1>3, <1>4, <1>5 DEF FBNext

LEMMA FBInitTypes == FBInit => FBTypeOK
  BY EmptySeq, FoundBlocksAssumption DEF FBInit, FBTypeOK, History

(* Every variable keeps its type, the copies and the file included.       *)
THEOREM FBTypeCorrect == FBSpec => []FBTypeOK
  BY FBInitTypes, FBTypes, PTL DEF FBSpec

-----------------------------------------------------------------------------
LEMMA OneWriterStep ==
    ASSUME FBTypeOK, OneWriter, [FBNext]_fbVars
    PROVE  OneWriter'
<1>1. CASE Restart
  BY <1>1, EmptySeq, FoundBlocksAssumption DEF Restart, OneWriter, FBTypeOK
<1>2. ASSUME NEW s \in Session, NEW b \in Block, Record(s, b)
      PROVE  OneWriter'
  BY <1>2 DEF Record, Step, OneWriter, FBTypeOK
<1>3. ASSUME NEW s \in Session, Save(s)
      PROVE  OneWriter'
  <2>1. CASE CopyHistory(s)
    BY <2>1 DEF CopyHistory, Step, OneWriter, FBTypeOK
  <2>2. CASE BeginWrite(s)
    BY <2>2, FoundBlocksAssumption DEF BeginWrite, Step, OneWriter, FBTypeOK
  <2>3. CASE EndWrite(s)
    BY <2>3, FoundBlocksAssumption
    DEF EndWrite, Close, Step, OneWriter, FBTypeOK, History
  <2>4. CASE FailWrite(s)
    BY <2>4, FoundBlocksAssumption DEF FailWrite, Close, Step, OneWriter, FBTypeOK
  <2>5. CASE FailOpen(s)
    BY <2>5 DEF FailOpen, Step, OneWriter, FBTypeOK
  <2> QED
    BY <1>3, <2>1, <2>2, <2>3, <2>4, <2>5 DEF Save
<1>4. CASE UNCHANGED fbVars
  BY <1>4 DEF fbVars, OneWriter
<1> QED
  BY <1>1, <1>2, <1>3, <1>4 DEF FBNext

LEMMA OneWriterInit == FBInit => OneWriter
  BY EmptySeq, FoundBlocksAssumption DEF FBInit, OneWriter

(* saveMu keeps the writers apart, and only an open or failed write       *)
(* leaves a file that does not parse.                                     *)
THEOREM OneWriterCorrect == FBSpec => []OneWriter
  BY FBInitTypes, FBTypes, OneWriterInit, OneWriterStep, PTL DEF FBSpec

-----------------------------------------------------------------------------
(* DiskIsAnEarlierHistory is not inductive: what a save is about to write *)
(* must be an earlier history too, or the write would break it.           *)
IsEarlier(q) == \E n \in 0 .. Len(recorded) : q = Earlier(n)

HistoryInv ==
    /\ DiskIsAnEarlierHistory
    /\ \A s \in Session : Saving(s) => IsEarlier(snapshot[s])

LEMMA EarlierFacts ==
    ASSUME FBTypeOK
    PROVE  /\ Len(recorded) \in Nat
           /\ Earlier(0) = trimFoundBlocks(recorded)
           /\ \A n \in 0 .. Len(recorded) :
                 Earlier(n) \in History /\ Len(Earlier(n)) <= MaxFoundBlocks
<1>1. recorded \in Seq(Block) /\ Len(recorded) \in Nat
  BY DEF FBTypeOK, History
<1>2. Earlier(0) = trimFoundBlocks(recorded)
  <2>1. SubSeq(recorded, 0 + 1, Len(recorded)) = recorded
    BY <1>1, SubSeqFull
  <2> QED
    BY <2>1 DEF Earlier
<1>3. ASSUME NEW n \in 0 .. Len(recorded)
      PROVE  Earlier(n) \in History /\ Len(Earlier(n)) <= MaxFoundBlocks
  <2>1. SubSeq(recorded, n + 1, Len(recorded)) \in History
    <3>1. \A i \in n + 1 .. Len(recorded) : recorded[i] \in Block
      BY <1>1
    <3> QED
      BY <1>1, <3>1, SubSeqProperties DEF History
  <2> DEFINE q == SubSeq(recorded, n + 1, Len(recorded))
  <2>2. Len(q) \in Nat
    BY <2>1 DEF History
  <2> HIDE DEF q
  <2>3. trimFoundBlocks(q) \in History /\ Len(trimFoundBlocks(q)) <= MaxFoundBlocks
    BY <2>1, <2>2, TrimFacts, FoundBlocksAssumption DEF q
  <2> QED
    BY <2>3 DEF Earlier, q
<1> QED
  BY <1>1, <1>2, <1>3

(* Prepending a block moves every earlier history one place back.         *)
LEMMA EarlierShifts ==
    ASSUME FBTypeOK, NEW b \in Block, recorded' = <<b>> \o recorded
    PROVE  /\ Len(recorded') = Len(recorded) + 1
           /\ \A n \in 0 .. Len(recorded) : Earlier(n + 1)' = Earlier(n)
<1>1. recorded \in Seq(Block) /\ Len(recorded) \in Nat /\ <<b>> \in Seq(Block)
      /\ Len(<<b>>) = 1 /\ Len(recorded') = Len(recorded) + 1
  BY PrependFacts DEF FBTypeOK, History
<1>2. ASSUME NEW n \in 0 .. Len(recorded)
      PROVE  Earlier(n + 1)' = Earlier(n)
  <2>1. CASE n = Len(recorded)
    <3>1. /\ SubSeq(recorded, n + 1, Len(recorded)) = << >>
          /\ SubSeq(recorded', (n + 1) + 1, Len(recorded')) = << >>
      BY <1>1, <2>1, SubSeqEmpty
    <3> QED
      BY <3>1 DEF Earlier
  <2>2. CASE n # Len(recorded)
    <3>1. /\ n + 2 \in Len(<<b>>) + 1 .. Len(<<b>>) + Len(recorded)
          /\ Len(recorded) + 1 \in Len(<<b>>) + 1 .. Len(<<b>>) + Len(recorded)
      BY <1>1, <2>2
    <3>2. SubSeq(<<b>> \o recorded, n + 2, Len(recorded) + 1)
             = SubSeq(recorded, n + 2 - Len(<<b>>), Len(recorded) + 1 - Len(<<b>>))
      BY <1>1, <3>1, SubSeqOfConcat2
    <3>3. /\ n + 2 - Len(<<b>>) = n + 1 /\ (n + 1) + 1 = n + 2
          /\ Len(recorded) + 1 - Len(<<b>>) = Len(recorded)
      BY <1>1
    <3>4. SubSeq(recorded', (n + 1) + 1, Len(recorded'))
             = SubSeq(recorded, n + 1, Len(recorded))
      BY <1>1, <3>2, <3>3
    <3> QED
      BY <3>4 DEF Earlier
  <2> QED
    BY <2>1, <2>2
<1> QED
  BY <1>1, <1>2

LEMMA HistoryRecord ==
    ASSUME FBTypeOK, HistoryInv, NEW s \in Session, NEW b \in Block, Record(s, b)
    PROVE  HistoryInv'
<1>1. recorded' = <<b>> \o recorded /\ recorded \in History /\ FBTypeOK'
  BY FBTypes DEF Record, FBTypeOK, FBNext
<1>2. foundBlocks' = Earlier(0)'
  <2>1. foundBlocks = trimFoundBlocks(recorded)
    BY EarlierFacts DEF HistoryInv, DiskIsAnEarlierHistory
  <2>2. foundBlocks' = trimFoundBlocks(<<b>> \o recorded)
    BY <1>1, <2>1, TrimPrepend DEF Record
  <2>3. SubSeq(recorded', 0 + 1, Len(recorded')) = recorded'
    BY <1>1, SubSeqFull DEF FBTypeOK, History
  <2> QED
    BY <1>1, <2>2, <2>3 DEF Earlier
<1>3. ASSUME NEW q, IsEarlier(q)
      PROVE  \E n \in 0 .. Len(recorded') : q = Earlier(n)'
  <2>1. PICK n \in 0 .. Len(recorded) : q = Earlier(n)
    BY <1>3 DEF IsEarlier
  <2>2. /\ Len(recorded) \in Nat /\ Len(recorded') = Len(recorded) + 1
        /\ Earlier(n + 1)' = Earlier(n)
    BY <1>1, EarlierFacts, EarlierShifts
  <2>3. n + 1 \in 0 .. Len(recorded') /\ q = Earlier(n + 1)'
    BY <2>1, <2>2
  <2> QED
    BY <2>3
<1>4. disk' = disk /\ snapshot' = snapshot /\ \A t \in Session : Saving(t)' => Saving(t)
  BY DEF Record, Step, Saving, FBTypeOK
<1>5. disk' # Torn => \E n \in 0 .. Len(recorded') : disk' = Earlier(n)'
  BY <1>3, <1>4 DEF HistoryInv, DiskIsAnEarlierHistory, IsEarlier
<1>6. ASSUME NEW t \in Session, Saving(t)'
      PROVE  \E n \in 0 .. Len(recorded') : snapshot'[t] = Earlier(n)'
  BY <1>3, <1>4, <1>6 DEF HistoryInv
<1> QED
  BY <1>2, <1>5, <1>6 DEF HistoryInv, DiskIsAnEarlierHistory, IsEarlier

LEMMA HistoryRestart ==
    ASSUME FBTypeOK, HistoryInv, Restart
    PROVE  HistoryInv'
<1>1. recorded' = Loaded /\ foundBlocks' = Loaded /\ FBTypeOK'
  BY FBTypes DEF Restart, FBNext
<1>2. Loaded = (IF disk = Torn THEN << >> ELSE disk) /\ Len(Loaded) <= MaxFoundBlocks
  <2>1. CASE disk = Torn
    BY <2>1, EmptySeq, FoundBlocksAssumption DEF Loaded
  <2>2. CASE disk # Torn
    <3>1. disk \in History /\ Len(disk) <= MaxFoundBlocks
      BY <2>2, EarlierFacts DEF HistoryInv, DiskIsAnEarlierHistory, FBTypeOK
    <3> QED
      BY <2>2, <3>1, TrimFacts DEF Loaded
  <2> QED
    BY <2>1, <2>2
<1>3. trimFoundBlocks(Loaded) = Loaded /\ Len(Loaded) \in Nat
  <2>1. Loaded \in History /\ Len(Loaded) \in Nat
    BY <1>1 DEF FBTypeOK, History
  <2> QED
    BY <1>2, <2>1, TrimFacts
<1>4. Earlier(0)' = Loaded
  <2>1. SubSeq(recorded', 0 + 1, Len(recorded')) = recorded'
    BY <1>1, SubSeqFull DEF FBTypeOK, History
  <2> QED
    BY <1>1, <1>3, <2>1 DEF Earlier
<1>5. disk' # Torn => disk' = Loaded
  BY <1>2 DEF Restart
<1>6. 0 \in 0 .. Len(recorded')
  BY <1>1, <1>3
<1>7. \A t \in Session : ~Saving(t)'
  BY DEF Restart, Saving
<1> QED
  BY <1>1, <1>4, <1>5, <1>6, <1>7 DEF HistoryInv, DiskIsAnEarlierHistory

LEMMA HistorySave ==
    ASSUME FBTypeOK, HistoryInv, NEW s \in Session, Save(s)
    PROVE  HistoryInv'
<1>1. UNCHANGED <<foundBlocks, recorded>>
  BY DEF Save, CopyHistory, FailOpen, BeginWrite, EndWrite, FailWrite, Close
<1>2. /\ foundBlocks' = Earlier(0)'
      /\ \A q : IsEarlier(q)' <=> IsEarlier(q)
  BY <1>1 DEF HistoryInv, DiskIsAnEarlierHistory, Earlier, IsEarlier
<1>3. CASE CopyHistory(s)
  <2>1. 0 \in 0 .. Len(recorded)
    BY EarlierFacts
  <2>2. IsEarlier(foundBlocks)
    BY <2>1 DEF HistoryInv, DiskIsAnEarlierHistory, IsEarlier
  <2>3. /\ disk' = disk
        /\ \A t \in Session : snapshot'[t] = IF t = s THEN foundBlocks ELSE snapshot[t]
        /\ \A t \in Session : Saving(t)' => t = s \/ Saving(t)
    BY <1>3 DEF CopyHistory, Step, Saving, FBTypeOK
  <2> QED
    BY <1>2, <2>2, <2>3 DEF HistoryInv, DiskIsAnEarlierHistory, IsEarlier
<1>4. CASE BeginWrite(s)
  <2>1. /\ disk' = Torn /\ snapshot' = snapshot
        /\ \A t \in Session : Saving(t)' => Saving(t)
    BY <1>4 DEF BeginWrite, Step, Saving, FBTypeOK
  <2> QED
    BY <1>2, <2>1 DEF HistoryInv, DiskIsAnEarlierHistory, IsEarlier
<1>5. ASSUME NEW f, f = Torn \/ IsEarlier(f), Close(s, f)
      PROVE  HistoryInv'
  <2>1. /\ disk' = f
        /\ \A t \in Session : Saving(t)' => t # s /\ Saving(t)
        /\ \A t \in Session : t # s => snapshot'[t] = snapshot[t]
    BY <1>5 DEF Close, Step, Saving, FBTypeOK
  <2> QED
    BY <1>2, <1>5, <2>1 DEF HistoryInv, DiskIsAnEarlierHistory, IsEarlier
<1>6. CASE EndWrite(s)
  <2>1. IsEarlier(snapshot[s])
    BY <1>6 DEF EndWrite, Close, Step, Saving, HistoryInv
  <2> QED
    BY <1>5, <1>6, <2>1 DEF EndWrite
<1>7. CASE FailWrite(s)
  BY <1>5, <1>7 DEF FailWrite, HistoryInv, DiskIsAnEarlierHistory, IsEarlier
<1>8. CASE FailOpen(s)
  <2>1. /\ disk' = disk
        /\ \A t \in Session : Saving(t)' => t # s /\ Saving(t)
        /\ \A t \in Session : t # s => snapshot'[t] = snapshot[t]
    BY <1>8 DEF FailOpen, Step, Saving, FBTypeOK
  <2> QED
    BY <1>2, <2>1 DEF HistoryInv, DiskIsAnEarlierHistory, IsEarlier
<1> QED
  BY <1>3, <1>4, <1>6, <1>7, <1>8 DEF Save

LEMMA HistoryStep ==
    ASSUME FBTypeOK, HistoryInv, [FBNext]_fbVars
    PROVE  HistoryInv'
<1>1. CASE UNCHANGED fbVars
  BY <1>1 DEF fbVars, HistoryInv, DiskIsAnEarlierHistory, IsEarlier, Earlier, Saving
<1> QED
  BY <1>1, HistoryRecord, HistoryRestart, HistorySave DEF FBNext

LEMMA HistoryInit == FBInit => HistoryInv
<1> SUFFICES ASSUME FBInit PROVE HistoryInv
  OBVIOUS
<1>1. FBTypeOK
  BY FBInitTypes
<1>2. Earlier(0) = << >>
  BY <1>1, EarlierFacts, TrimFacts, EmptySeq, FoundBlocksAssumption DEF FBInit, FBTypeOK
<1>3. 0 \in 0 .. Len(recorded)
  BY <1>1, EarlierFacts
<1> QED
  BY <1>2, <1>3 DEF FBInit, HistoryInv, DiskIsAnEarlierHistory, Saving

(* A file that parses holds the history of an earlier moment, whatever    *)
(* saves ran, failed or were cut off by the end of the process.           *)
THEOREM DiskIsAnEarlierHistoryCorrect == FBSpec => []DiskIsAnEarlierHistory
<1>1. HistoryInv => DiskIsAnEarlierHistory
  BY DEF HistoryInv
<1> QED
  BY <1>1, FBInitTypes, FBTypes, HistoryInit, HistoryStep, PTL DEF FBSpec

-----------------------------------------------------------------------------
(* As long as saves neither overlap nor fail, at most one is under way,   *)
(* and with nobody about to begin one it carries the history as it is.    *)
QuietInv ==
    ~disturbed =>
        /\ \A s, t \in Session : Saving(s) /\ Saving(t) => s = t
        /\ (\A s \in Session : spc[s] # "recorded")
              => \A s \in Session : Saving(s) => snapshot[s] = foundBlocks
        /\ AllSaved => disk = foundBlocks

LEMMA QuietSave ==
    ASSUME FBTypeOK, QuietInv, NEW s \in Session, Save(s)
    PROVE  QuietInv'
<1>1. CASE CopyHistory(s)
  <2> SUFFICES ASSUME ~disturbed'
               PROVE  QuietInv'
    BY DEF QuietInv
  <2>1. \A t \in Session : Saving(t)' <=> t = s
    BY <1>1 DEF CopyHistory, Step, Saving, FBTypeOK
  <2>2. snapshot'[s] = foundBlocks'
    BY <1>1 DEF CopyHistory, FBTypeOK
  <2>3. ~AllSaved'
    BY <2>1 DEF Saving, AllSaved
  <2> QED
    BY <2>1, <2>2, <2>3 DEF QuietInv
<1>2. CASE BeginWrite(s)
  <2>1. /\ UNCHANGED <<foundBlocks, snapshot, disturbed>>
        /\ \A t \in Session : Saving(t)' <=> Saving(t)
        /\ \A t \in Session : spc'[t] = "recorded" <=> spc[t] = "recorded"
        /\ spc'[s] = "writing"
    BY <1>2 DEF BeginWrite, Step, Saving, FBTypeOK
  <2> QED
    BY <2>1 DEF QuietInv, AllSaved
<1>3. CASE EndWrite(s)
  <2> SUFFICES ASSUME ~disturbed'
               PROVE  QuietInv'
    BY DEF QuietInv
  <2>1. /\ UNCHANGED <<foundBlocks, disturbed>> /\ disk' = snapshot[s]
        /\ \A t \in Session : Saving(t)' => t # s /\ Saving(t)
        /\ Saving(s)
        /\ \A t \in Session : spc'[t] = IF t = s THEN "idle" ELSE spc[t]
    BY <1>3 DEF EndWrite, Close, Step, Saving, FBTypeOK
  <2>2. \A t \in Session : ~Saving(t)'
    BY <2>1 DEF QuietInv
  <2>3. ASSUME AllSaved'
        PROVE  disk' = foundBlocks'
    <3>1. \A t \in Session : spc[t] # "recorded"
      BY <2>1, <2>3 DEF AllSaved, Saving
    <3> QED
      BY <2>1, <3>1 DEF QuietInv
  <2> QED
    BY <2>2, <2>3 DEF QuietInv
<1>4. CASE FailWrite(s) \/ FailOpen(s)
  BY <1>4 DEF FailWrite, FailOpen, QuietInv
<1> QED
  BY <1>1, <1>2, <1>3, <1>4 DEF Save

LEMMA QuietStep ==
    ASSUME FBTypeOK, HistoryInv, QuietInv, [FBNext]_fbVars
    PROVE  QuietInv'
<1>1. CASE Restart
  <2>1. \A t \in Session : ~Saving(t)'
    BY <1>1 DEF Restart, Saving
  <2>2. CASE disk = Torn
    BY <1>1, <2>1, <2>2 DEF Restart, Loaded, QuietInv
  <2>3. CASE disk # Torn
    <3>1. disk \in History /\ Len(disk) <= MaxFoundBlocks
      BY <2>3, EarlierFacts DEF HistoryInv, DiskIsAnEarlierHistory, FBTypeOK
    <3>2. Loaded = disk
      BY <2>3, <3>1, TrimFacts DEF Loaded
    <3> QED
      BY <1>1, <2>1, <2>3, <3>2 DEF Restart, QuietInv
  <2> QED
    BY <2>2, <2>3
<1>2. ASSUME NEW s \in Session, NEW b \in Block, Record(s, b)
      PROVE  QuietInv'
  <2>1. /\ spc'[s] = "recorded"
        /\ disturbed' = disturbed
        /\ \A t \in Session : Saving(t)' => Saving(t)
    BY <1>2 DEF Record, Step, Saving, FBTypeOK
  <2> QED
    BY <2>1 DEF QuietInv, AllSaved
<1>3. CASE UNCHANGED fbVars
  BY <1>3 DEF fbVars, QuietInv, Saving, AllSaved
<1> QED
  BY <1>1, <1>2, <1>3, QuietSave DEF FBNext

LEMMA QuietInit == FBInit => QuietInv
  BY DEF FBInit, QuietInv, Saving, AllSaved

(* Without overlapping or failed saves no found block is missing from the *)
(* file once recordFoundBlock has returned everywhere.                    *)
THEOREM QuietSavesAreCompleteCorrect == FBSpec => []QuietSavesAreComplete
<1>1. QuietInv => QuietSavesAreComplete
  BY DEF QuietInv, QuietSavesAreComplete
<1> QED
  BY <1>1, FBInitTypes, FBTypes, HistoryInit, HistoryStep, QuietInit, QuietStep, PTL
  DEF FBSpec

-----------------------------------------------------------------------------
(* Block submission, which uses it.                                        *)

(* What one submitblock call does to the state.                           *)
Answered(s, b, w, res) ==
    /\ hit' = [hit EXCEPT ![s] = [block |-> b, witness |-> hit[s].witness, answer |-> res]]
    /\ chain \subseteq chain' /\ chain' \subseteq chain \cup {b}
    /\ res = "accepted" => b \notin chain /\ b \in chain'
    /\ excused' = IF res \in {"error", "other"} THEN excused \cup {b} ELSE excused
    /\ res = "witness" => ~LayoutAllowed(b, w)

LEMMA CallFacts ==
    ASSUME SubmitTypeOK, NEW s \in Session, bpc[s] # "mining",
           NEW w \in BOOLEAN, Call(s, hit[s].block, w)
    PROVE  /\ hit[s] \in Hit
           /\ \E res \in {"error", "other", "accepted", "witness"} :
                 Answered(s, hit[s].block, w, res)
<1> DEFINE b == hit[s].block
<1>1. hit[s] \in Hit /\ hit \in [Session -> Hit \cup {NoHit}]
  BY DEF SubmitTypeOK
<1>2. PICK a \in NodeAnswer(b, w) :
        /\ hit' = [hit EXCEPT ![s].answer = a.res]
        /\ chain' = IF a.took THEN chain \cup {b} ELSE chain
        /\ excused' = IF a.res \in {"error", "other"} THEN excused \cup {b} ELSE excused
  BY DEF Call
<1>3. /\ a.res \in {"error", "other", "accepted", "witness"}
      /\ a.res = "accepted" => b \notin chain /\ a.took
      /\ a.res = "witness" => ~LayoutAllowed(b, w)
  BY DEF NodeAnswer
<1>4. hit' = [hit EXCEPT ![s] = [block |-> b, witness |-> hit[s].witness,
                                 answer |-> a.res]]
  <2>1. [hit[s] EXCEPT !.answer = a.res]
           = [block |-> b, witness |-> hit[s].witness, answer |-> a.res]
    BY <1>1 DEF Hit
  <2>2. hit' = [hit EXCEPT ![s] = [hit[s] EXCEPT !.answer = a.res]]
    BY <1>1, <1>2
  <2> QED
    BY <2>1, <2>2
<1>5. /\ chain \subseteq chain' /\ chain' \subseteq chain \cup {b}
      /\ a.res = "accepted" => b \notin chain /\ b \in chain'
  BY <1>2, <1>3
<1>6. excused' = IF a.res \in {"error", "other"} THEN excused \cup {b} ELSE excused
  BY <1>2
<1>7. Answered(s, b, w, a.res)
  BY <1>3, <1>4, <1>5, <1>6 DEF Answered
<1> QED
  BY <1>1, <1>3, <1>7

(* The moves of a handler that leave the history of found blocks alone.   *)
LEMMA FoundBlocksStep ==
    ASSUME SubmitTypeOK, [SubmitNext]_vars
    PROVE  [FBNext]_fbVars
<1>1. ASSUME NEW s \in Session, RecordFound(s)
      PROVE  FBNext
  <2>1. hit[s].block \in Block
    BY <1>1 DEF RecordFound, LastAnswer, SubmitTypeOK, Hit
  <2> QED
    BY <1>1, <2>1 DEF RecordFound, FBNext
<1>2. ASSUME NEW s \in Session, Handle(s)
      PROVE  FBNext \/ UNCHANGED fbVars
  BY <1>1, <1>2 DEF Handle, SubmitBlock, LearnRejection, Retry, GiveUp, SaveFound,
                    Announce, FBNext
<1> QED
  BY <1>2 DEF SubmitNext, RestartPool, DecideWitness, FBNext, vars

LEMMA SubmitTypes ==
    ASSUME SubmitTypeOK, [SubmitNext]_vars
    PROVE  SubmitTypeOK'
<1>1. FBTypeOK'
  BY FoundBlocksStep, FBTypes DEF SubmitTypeOK
<1>2. CASE RestartPool
  <2>1. InFlight \subseteq Block
    BY DEF InFlight, SubmitTypeOK, Hit
  <2> QED
    BY <1>1, <1>2, <2>1 DEF RestartPool, SubmitTypeOK, nodeVars
<1>3. ASSUME NEW s \in Session, NEW b \in Block, DecideWitness(s, b)
      PROVE  SubmitTypeOK'
  <2>1. coinbaseWitnessAllowed(b) \in BOOLEAN
    BY DEF coinbaseWitnessAllowed, SubmitTypeOK
  <2>2. [block |-> b, answer |-> "none", witness |-> coinbaseWitnessAllowed(b)] \in Hit
    BY <2>1 DEF Hit
  <2> QED
    BY <1>1, <1>3, <2>2 DEF DecideWitness, Goto, SubmitTypeOK, nodeVars, historyVars
<1>4. ASSUME NEW s \in Session, NEW w \in BOOLEAN, bpc[s] # "mining",
             Call(s, hit[s].block, w),
             bpc' \in {[bpc EXCEPT ![s] = "answered"], [bpc EXCEPT ![s] = "final"]},
             UNCHANGED <<nodeVars, witnessRejected, concluded, announced>>
      PROVE  SubmitTypeOK'
  <2>1. /\ hit[s] \in Hit
        /\ \E res \in {"error", "other", "accepted", "witness"} :
              Answered(s, hit[s].block, w, res)
    BY <1>4, CallFacts
  <2>2. PICK res \in {"error", "other", "accepted", "witness"} :
          Answered(s, hit[s].block, w, res)
    BY <2>1
  <2>3. [block |-> hit[s].block, witness |-> hit[s].witness, answer |-> res] \in Hit
    BY <2>1 DEF Hit
  <2>4. chain' \subseteq Block /\ excused' \subseteq Block
    BY <2>1, <2>2 DEF Answered, SubmitTypeOK, Hit
  <2>5. hit' = [hit EXCEPT ![s] = [block |-> hit[s].block, witness |-> hit[s].witness,
                                   answer |-> res]]
    BY <2>2 DEF Answered
  <2> QED
    BY <1>1, <1>4, <2>3, <2>4, <2>5 DEF SubmitTypeOK, nodeVars
<1>5. ASSUME NEW s \in Session, Conclude(s), bpc[s] # "mining",
             announced' \subseteq announced \cup {hit[s].block}
      PROVE  SubmitTypeOK'
  <2>1. hit[s].block \in Block
    BY <1>5 DEF SubmitTypeOK, Hit
  <2> QED
    BY <1>1, <1>5, <2>1 DEF Conclude, SubmitTypeOK, nodeVars
<1>6. ASSUME NEW s \in Session, Handle(s)
      PROVE  SubmitTypeOK'
  <2>1. CASE SubmitBlock(s)
    <3>1. hit[s].witness \in BOOLEAN
      BY <2>1 DEF SubmitBlock, Goto, SubmitTypeOK, Hit
    <3> QED
      BY <1>4, <2>1, <3>1 DEF SubmitBlock, Goto
  <2>2. CASE LearnRejection(s)
    BY <1>1, <2>2 DEF LearnRejection, Goto, SubmitTypeOK, nodeVars, historyVars
  <2>3. CASE Retry(s)
    BY <1>4, <2>3 DEF Retry, Goto
  <2>4. CASE GiveUp(s)
    BY <1>5, <2>4 DEF GiveUp, LastAnswer
  <2>5. CASE RecordFound(s)
    BY <1>1, <2>5 DEF RecordFound, LastAnswer, SubmitTypeOK, nodeVars, historyVars
  <2>6. CASE SaveFound(s)
    BY <1>1, <2>6 DEF SaveFound, SubmitTypeOK, nodeVars, historyVars
  <2>7. CASE Announce(s)
    BY <1>5, <2>7 DEF Announce
  <2> QED
    BY <1>6, <2>1, <2>2, <2>3, <2>4, <2>5, <2>6, <2>7 DEF Handle
<1>7. CASE UNCHANGED vars
  BY <1>1, <1>7 DEF vars, SubmitTypeOK, nodeVars, historyVars
<1> QED
  BY <1>2, <1>3, <1>6, <1>7 DEF SubmitNext

LEMMA SubmitInitTypes == SubmitInit => SubmitTypeOK
  BY FBInitTypes DEF SubmitInit, SubmitTypeOK

(* Types, and a handler holds a block exactly while it handles one.       *)
THEOREM SubmitTypeCorrect == SubmitSpec => []SubmitTypeOK
  BY SubmitInitTypes, SubmitTypes, PTL DEF SubmitSpec

(* Block submission uses the history only as FoundBlocks describes.       *)
THEOREM SubmissionKeepsHistoryRules == SubmitSpec => FBSpec
<1>1. SubmitInit => FBInit
  BY DEF SubmitInit
<1> QED
  BY <1>1, SubmitInitTypes, SubmitTypes, FoundBlocksStep, PTL DEF SubmitSpec, FBSpec

-----------------------------------------------------------------------------
(* What a handler knows of its block at each place.                       *)
HandlerKnows(s) ==
    LET b == hit[s].block
        ans == hit[s].answer
    IN  /\ Finder[b] = s
        /\ ~hit[s].witness /\ ~legacyNode => b \notin hasCommitment
        /\ bpc[s] \in {"retry", "final"} => legacyNode
        /\ bpc[s] \in {"answered", "final"} =>
              /\ ans \in {"error", "other"} => b \in excused
              /\ ans = "accepted" => b \in chain
              /\ ans # "none"
        /\ ans = "witness" /\ bpc[s] = "answered" => ~LayoutAllowed(b, hit[s].witness)
        /\ bpc[s] = "final" => ans # "witness"
        /\ bpc[s] = "record" => b \in chain

HandlerInv ==
    /\ LearnsTheTruth
    /\ ~witnessData => legacyNode
    /\ \A s \in Session : bpc[s] # "mining" => HandlerKnows(s)

(* A step that touches only session s leaves what the others know.        *)
LEMMA OthersKnow ==
    ASSUME SubmitTypeOK, HandlerInv, NEW s \in Session,
           \A t \in Session : t # s => bpc'[t] = bpc[t] /\ hit'[t] = hit[t],
           UNCHANGED nodeVars, chain \subseteq chain', excused \subseteq excused',
           LearnsTheTruth', bpc'[s] # "mining" => HandlerKnows(s)'
    PROVE  HandlerInv'
<1>1. ASSUME NEW t \in Session, t # s, bpc'[t] # "mining"
      PROVE  HandlerKnows(t)'
  <2>1. HandlerKnows(t)
    BY <1>1 DEF HandlerInv
  <2> QED
    BY <1>1, <2>1 DEF HandlerKnows, LayoutAllowed, nodeVars
<1> QED
  BY <1>1 DEF HandlerInv, nodeVars

LEMMA HandlerDecides ==
    ASSUME SubmitTypeOK, HandlerInv, NEW s \in Session, NEW b \in Block,
           DecideWitness(s, b)
    PROVE  HandlerInv'
<1>1. /\ hit'[s] = [block |-> b, answer |-> "none", witness |-> coinbaseWitnessAllowed(b)]
      /\ bpc'[s] = "submit" /\ Finder[b] = s
      /\ \A t \in Session : t # s => bpc'[t] = bpc[t] /\ hit'[t] = hit[t]
      /\ UNCHANGED <<nodeVars, chain, witnessRejected, excused>>
  BY DEF DecideWitness, Goto, SubmitTypeOK, historyVars
<1>2. ~coinbaseWitnessAllowed(b) /\ ~legacyNode => b \notin hasCommitment
  BY DEF coinbaseWitnessAllowed, HandlerInv, LearnsTheTruth
<1>3. HandlerKnows(s)'
  BY <1>1, <1>2 DEF HandlerKnows, nodeVars
<1>4. LearnsTheTruth'
  BY <1>1 DEF HandlerInv, LearnsTheTruth, nodeVars
<1> QED
  BY <1>1, <1>3, <1>4, OthersKnow

LEMMA HandlerHearsAnswer ==
    ASSUME SubmitTypeOK, HandlerInv, NEW s \in Session,
           SubmitBlock(s) \/ Retry(s)
    PROVE  HandlerInv'
<1> DEFINE w == IF bpc[s] = "submit" THEN hit[s].witness ELSE FALSE
           b == hit[s].block
<1>1. /\ bpc[s] \in {"submit", "retry"}
      /\ bpc'[s] = IF bpc[s] = "submit" THEN "answered" ELSE "final"
      /\ \A t \in Session : t # s => bpc'[t] = bpc[t]
      /\ UNCHANGED <<nodeVars, witnessRejected>>
  BY DEF SubmitBlock, Retry, Goto, SubmitTypeOK
<1>2. Call(s, b, w)
  BY DEF SubmitBlock, Retry, Goto
<1>3. hit[s] \in Hit /\ w \in BOOLEAN /\ HandlerKnows(s)
  BY <1>1 DEF SubmitTypeOK, Hit, HandlerInv
<1>4. \E res \in {"error", "other", "accepted", "witness"} : Answered(s, b, w, res)
  BY <1>1, <1>2, <1>3, CallFacts
<1>5. PICK res \in {"error", "other", "accepted", "witness"} : Answered(s, b, w, res)
  BY <1>4
<1>6. /\ hit'[s] = [block |-> b, witness |-> hit[s].witness, answer |-> res]
      /\ \A t \in Session : t # s => hit'[t] = hit[t]
      /\ chain \subseteq chain' /\ excused \subseteq excused'
      /\ res \in {"error", "other"} => b \in excused'
      /\ res = "accepted" => b \in chain'
      /\ res = "witness" => ~LayoutAllowed(b, w)
  BY <1>5 DEF Answered, SubmitTypeOK
<1>7. LearnsTheTruth'
  BY <1>1 DEF HandlerInv, LearnsTheTruth, nodeVars
<1>8. HandlerKnows(s)'
  <2>1. CASE bpc[s] = "submit"
    BY <1>1, <1>3, <1>6, <2>1 DEF HandlerKnows, LayoutAllowed, nodeVars
  <2>2. CASE bpc[s] = "retry"
    <3>1. legacyNode /\ w = FALSE
      BY <1>3, <2>2 DEF HandlerKnows
    <3>2. res # "witness"
      BY <1>6, <3>1 DEF LayoutAllowed
    <3> QED
      BY <1>1, <1>3, <1>6, <2>2, <3>1, <3>2 DEF HandlerKnows, nodeVars
  <2> QED
    BY <1>1, <2>1, <2>2
<1> QED
  BY <1>1, <1>6, <1>7, <1>8, OthersKnow

LEMMA HandlerLearns ==
    ASSUME SubmitTypeOK, HandlerInv, NEW s \in Session, LearnRejection(s)
    PROVE  HandlerInv'
<1>1. /\ bpc[s] = "answered" /\ bpc'[s] = "retry"
      /\ hit[s].witness /\ hit[s].answer = "witness"
      /\ \A t \in Session : t # s => bpc'[t] = bpc[t]
      /\ UNCHANGED <<hit, nodeVars, chain, excused>>
  BY DEF LearnRejection, ShouldRetry, isWitnessRejection, Goto, SubmitTypeOK, historyVars
<1>2. HandlerKnows(s) /\ hit[s] \in Hit
  BY <1>1 DEF HandlerInv, SubmitTypeOK
<1>3. legacyNode
  BY <1>1, <1>2 DEF HandlerKnows, LayoutAllowed
<1>4. HandlerKnows(s)'
  BY <1>1, <1>2, <1>3 DEF HandlerKnows, nodeVars
<1>5. LearnsTheTruth'
  BY <1>1, <1>3 DEF LearnsTheTruth, nodeVars
<1> QED
  BY <1>1, <1>4, <1>5, OthersKnow

LEMMA HandlerGoesOn ==
    ASSUME SubmitTypeOK, HandlerInv, NEW s \in Session,
           GiveUp(s) \/ RecordFound(s) \/ SaveFound(s) \/ Announce(s)
    PROVE  HandlerInv'
<1>1. /\ \A t \in Session : t # s => bpc'[t] = bpc[t] /\ hit'[t] = hit[t]
      /\ UNCHANGED <<nodeVars, chain, excused, witnessRejected>>
  BY DEF GiveUp, RecordFound, SaveFound, Announce, Conclude, SubmitTypeOK, historyVars
<1>2. LearnsTheTruth'
  BY <1>1 DEF HandlerInv, LearnsTheTruth, nodeVars
<1>3. CASE GiveUp(s) \/ Announce(s)
  <2>1. bpc'[s] = "mining"
    BY <1>3 DEF GiveUp, Announce, Conclude, SubmitTypeOK
  <2> QED
    BY <1>1, <1>2, <2>1, OthersKnow
<1>4. CASE RecordFound(s)
  <2>1. /\ bpc[s] \in {"answered", "final"} /\ hit[s].answer = "accepted"
        /\ bpc'[s] = "record" /\ hit' = hit
    BY <1>4 DEF RecordFound, LastAnswer, isSubmitBlockAccepted, SubmitTypeOK
  <2>2. HandlerKnows(s)
    BY <2>1 DEF HandlerInv
  <2>3. HandlerKnows(s)'
    BY <1>1, <2>1, <2>2 DEF HandlerKnows, nodeVars
  <2> QED
    BY <1>1, <1>2, <2>3, OthersKnow
<1>5. CASE SaveFound(s)
  <2>1. bpc[s] = "record" /\ bpc' = bpc /\ hit' = hit
    BY <1>5 DEF SaveFound
  <2>2. HandlerKnows(s)
    BY <2>1 DEF HandlerInv
  <2>3. HandlerKnows(s)'
    BY <1>1, <2>1, <2>2 DEF HandlerKnows, LayoutAllowed, nodeVars
  <2> QED
    BY <1>1, <1>2, <2>3, OthersKnow
<1> QED
  BY <1>3, <1>4, <1>5

LEMMA HandlerStep ==
    ASSUME SubmitTypeOK, HandlerInv, [SubmitNext]_vars
    PROVE  HandlerInv'
<1>1. CASE RestartPool
  <2>1. /\ \A s \in Session : bpc'[s] = "mining"
        /\ witnessRejected' = FALSE /\ UNCHANGED nodeVars
    BY <1>1 DEF RestartPool
  <2> QED
    BY <2>1 DEF HandlerInv, LearnsTheTruth, nodeVars
<1>2. ASSUME NEW s \in Session, Handle(s)
      PROVE  HandlerInv'
  BY <1>2, HandlerHearsAnswer, HandlerLearns, HandlerGoesOn DEF Handle
<1>3. CASE UNCHANGED vars
  BY <1>3 DEF vars, HandlerInv, HandlerKnows, LearnsTheTruth, LayoutAllowed, nodeVars,
              historyVars
<1> QED
  BY <1>1, <1>2, <1>3, HandlerDecides DEF SubmitNext

LEMMA HandlerInit == SubmitInit => HandlerInv
  BY DEF SubmitInit, HandlerInv, LearnsTheTruth

(* The pool disables witness data for the rest of the run only on a node  *)
(* that refuses witness data, whatever it believed at the start.          *)
THEOREM LearnsTheTruthCorrect == SubmitSpec => []LearnsTheTruth
<1>1. HandlerInv => LearnsTheTruth
  BY DEF HandlerInv
<1> QED
  BY <1>1, SubmitInitTypes, SubmitTypes, HandlerInit, HandlerStep, PTL DEF SubmitSpec

-----------------------------------------------------------------------------
LEMMA ValidBlocksStep ==
    ASSUME SubmitTypeOK, HandlerInv, ValidBlocksAreKept, [SubmitNext]_vars
    PROVE  ValidBlocksAreKept'
<1>1. ASSUME NEW s \in Session, GiveUp(s)
      PROVE  ValidBlocksAreKept'
  <2>1. /\ bpc[s] = "final" \/ (bpc[s] = "answered" /\ ~ShouldRetry(s))
        /\ hit[s].answer # "accepted" /\ hit[s] \in Hit /\ HandlerKnows(s)
    BY <1>1 DEF GiveUp, LastAnswer, isSubmitBlockAccepted, HandlerInv, SubmitTypeOK
  <2>2. hit[s].answer # "witness"
    <3>1. SUFFICES ASSUME bpc[s] = "answered", ~ShouldRetry(s), hit[s].answer = "witness"
                   PROVE  FALSE
      BY <2>1 DEF HandlerKnows
    <3>2. ~hit[s].witness /\ ~LayoutAllowed(hit[s].block, FALSE)
      BY <2>1, <3>1 DEF HandlerKnows, ShouldRetry, isWitnessRejection, LayoutAllowed
    <3> QED
      BY <2>1, <3>2 DEF HandlerKnows, LayoutAllowed
  <2>3. hit[s].answer \in {"error", "other"}
    BY <2>1, <2>2 DEF Hit, HandlerKnows
  <2>4. hit[s].block \in excused
    BY <2>1, <2>3 DEF HandlerKnows
  <2> QED
    BY <1>1, <2>4 DEF GiveUp, Conclude, ValidBlocksAreKept
<1>2. ASSUME NEW s \in Session, Announce(s)
      PROVE  ValidBlocksAreKept'
  <2>1. hit[s].block \in chain
    BY <1>2 DEF Announce, HandlerInv, HandlerKnows
  <2> QED
    BY <1>2, <2>1 DEF Announce, Conclude, ValidBlocksAreKept
<1>3. ASSUME NEW s \in Session, SubmitBlock(s) \/ Retry(s)
      PROVE  ValidBlocksAreKept'
  <2>1. /\ UNCHANGED <<concluded, announced>>
        /\ chain \subseteq chain' /\ excused \subseteq excused'
    BY <1>3 DEF SubmitBlock, Retry, Call
  <2> QED
    BY <2>1 DEF ValidBlocksAreKept
<1>4. ASSUME NEW s \in Session, Handle(s)
      PROVE  ValidBlocksAreKept'
  <2>1. CASE LearnRejection(s) \/ RecordFound(s) \/ SaveFound(s)
    BY <2>1 DEF LearnRejection, RecordFound, SaveFound, historyVars, ValidBlocksAreKept
  <2> QED
    BY <1>1, <1>2, <1>3, <1>4, <2>1 DEF Handle
<1>5. CASE RestartPool
  BY <1>5 DEF RestartPool, ValidBlocksAreKept
<1>6. ASSUME NEW s \in Session, NEW b \in Block, DecideWitness(s, b)
      PROVE  ValidBlocksAreKept'
  BY <1>6 DEF DecideWitness, historyVars, ValidBlocksAreKept
<1>7. CASE UNCHANGED vars
  BY <1>7 DEF vars, historyVars, ValidBlocksAreKept
<1> QED
  BY <1>4, <1>5, <1>6, <1>7 DEF SubmitNext

(* No valid block is given up because of what the pool believed of the    *)
(* node's witness rules, or of what another handler learned meanwhile.    *)
THEOREM ValidBlocksAreKeptCorrect == SubmitSpec => []ValidBlocksAreKept
<1>1. SubmitInit => ValidBlocksAreKept
  BY DEF SubmitInit, ValidBlocksAreKept
<1> QED
  BY <1>1, SubmitInitTypes, SubmitTypes, HandlerInit, HandlerStep, ValidBlocksStep, PTL
  DEF SubmitSpec

-----------------------------------------------------------------------------
NoRepeats(q) == \A i, j \in 1 .. Len(q) : q[i] = q[j] => i = j

(* An accepted block that its handler has not recorded yet is not in the  *)
(* history, so recording it repeats none.                                 *)
RecordInv ==
    /\ InHistory(recorded) \cup announced \subseteq chain
    /\ NoRepeats(recorded)
    /\ \A s \in Session :
          bpc[s] \in {"answered", "final"} /\ hit[s].answer = "accepted"
             => hit[s].block \notin InHistory(recorded)

(* An earlier history is a piece of the list of recorded blocks.          *)
LEMMA EarlierIsPart ==
    ASSUME FBTypeOK, NEW n \in 0 .. Len(recorded)
    PROVE  \A i \in 1 .. Len(Earlier(n)) :
              i + n \in 1 .. Len(recorded) /\ Earlier(n)[i] = recorded[i + n]
<1> DEFINE q == SubSeq(recorded, n + 1, Len(recorded))
<1>1. recorded \in Seq(Block) /\ Len(recorded) \in Nat
  BY DEF FBTypeOK, History
<1>2. \A i \in n + 1 .. Len(recorded) : recorded[i] \in Block
  BY <1>1
<1>3. /\ q \in Seq(Block)
      /\ Len(q) = IF n + 1 <= Len(recorded) THEN Len(recorded) - (n + 1) + 1 ELSE 0
      /\ \A i \in 1 .. Len(recorded) - (n + 1) + 1 : q[i] = recorded[n + 1 + i - 1]
  BY <1>1, <1>2, SubSeqProperties
<1>4. Len(q) = Len(recorded) - n /\ \A i \in 1 .. Len(q) : q[i] = recorded[i + n]
  BY <1>1, <1>3
<1> HIDE DEF q
<1>5. /\ Len(trimFoundBlocks(q)) \in Nat /\ Len(trimFoundBlocks(q)) <= Len(q)
      /\ \A i \in 1 .. Len(trimFoundBlocks(q)) : trimFoundBlocks(q)[i] = q[i]
  <2>1. q \in History /\ Len(q) \in Nat
    BY <1>1, <1>3, <1>4 DEF History
  <2> QED
    BY <2>1, TrimFacts, FoundBlocksAssumption
<1>6. Earlier(n) = trimFoundBlocks(q)
  BY DEF Earlier, q
<1> QED
  BY <1>1, <1>4, <1>5, <1>6

LEMMA EarlierHistoryRecorded ==
    ASSUME FBTypeOK, NEW q, IsEarlier(q)
    PROVE  InHistory(q) \subseteq InHistory(recorded) /\ (NoRepeats(recorded) => NoRepeats(q))
<1>1. PICK n \in 0 .. Len(recorded) : q = Earlier(n)
  BY DEF IsEarlier
<1>2. \A i \in 1 .. Len(q) : i + n \in 1 .. Len(recorded) /\ q[i] = recorded[i + n]
  BY <1>1, EarlierIsPart
<1>3. InHistory(q) \subseteq InHistory(recorded)
  BY <1>2 DEF InHistory
<1>4. ASSUME NoRepeats(recorded)
      PROVE  NoRepeats(q)
  <2> SUFFICES ASSUME NEW i \in 1 .. Len(q), NEW j \in 1 .. Len(q), q[i] = q[j]
               PROVE  i = j
    BY DEF NoRepeats
  <2>1. i + n = j + n
    BY <1>2, <1>4 DEF NoRepeats
  <2>2. i \in Int /\ j \in Int /\ n \in Int
    BY EarlierFacts
  <2> QED
    BY <2>1, <2>2
<1> QED
  BY <1>3, <1>4

LEMMA RecordsFound ==
    ASSUME SubmitTypeOK, HandlerInv, RecordInv, NEW s \in Session, RecordFound(s)
    PROVE  RecordInv'
<1> DEFINE b == hit[s].block
<1>1. /\ bpc[s] \in {"answered", "final"} /\ hit[s].answer = "accepted"
      /\ bpc'[s] = "record"
      /\ \A t \in Session : t # s => bpc'[t] = bpc[t]
      /\ recorded' = <<b>> \o recorded
      /\ UNCHANGED <<hit, chain, announced>>
  BY DEF RecordFound, LastAnswer, isSubmitBlockAccepted, Record, SubmitTypeOK, historyVars
<1>2. b \in Block /\ b \in chain /\ Finder[b] = s /\ recorded \in History
  BY <1>1 DEF SubmitTypeOK, Hit, HandlerInv, HandlerKnows, FBTypeOK
<1>3. b \notin InHistory(recorded)
  BY <1>1 DEF RecordInv
<1>4. /\ Len(recorded) \in Nat /\ Len(recorded') = Len(recorded) + 1
      /\ recorded'[1] = b
      /\ \A i \in 1 .. Len(recorded) : recorded'[i + 1] = recorded[i]
  BY <1>1, <1>2, PrependFacts DEF History
<1> HIDE DEF b
<1>5. ASSUME NEW i \in 1 .. Len(recorded'), i # 1
      PROVE  i - 1 \in 1 .. Len(recorded) /\ recorded'[i] = recorded[i - 1]
  <2>1. i - 1 \in 1 .. Len(recorded) /\ (i - 1) + 1 = i
    BY <1>4, <1>5
  <2> QED
    BY <1>4, <2>1
<1>6. InHistory(recorded') = {b} \cup InHistory(recorded)
  <2>1. \A i \in 1 .. Len(recorded) : i + 1 \in 1 .. Len(recorded')
    BY <1>4
  <2>2. 1 \in 1 .. Len(recorded')
    BY <1>4
  <2> QED
    BY <1>4, <1>5, <2>1, <2>2 DEF InHistory
<1>7. NoRepeats(recorded')
  <2>1. \A i \in 1 .. Len(recorded) : recorded[i] # b
    BY <1>3 DEF InHistory
  <2> SUFFICES ASSUME NEW i \in 1 .. Len(recorded'), NEW j \in 1 .. Len(recorded'),
                      recorded'[i] = recorded'[j]
               PROVE  i = j
    BY DEF NoRepeats
  <2>2. CASE i # 1 /\ j # 1
    <3>1. i - 1 = j - 1
      BY <1>5, <2>2 DEF RecordInv, NoRepeats
    <3> QED
      BY <1>4, <3>1
  <2> QED
    BY <1>4, <1>5, <2>1, <2>2
<1>8. ASSUME NEW t \in Session, bpc'[t] \in {"answered", "final"},
             hit'[t].answer = "accepted"
      PROVE  hit'[t].block \notin InHistory(recorded')
  <2>1. t # s /\ bpc[t] # "mining"
    BY <1>1, <1>8
  <2>2. Finder[hit[t].block] = t
    BY <2>1 DEF HandlerInv, HandlerKnows
  <2> QED
    BY <1>1, <1>2, <1>6, <1>8, <2>1, <2>2 DEF RecordInv
<1> QED
  BY <1>1, <1>2, <1>6, <1>7, <1>8 DEF RecordInv, InHistory

LEMMA RecordHearsAnswer ==
    ASSUME SubmitTypeOK, HandlerInv, RecordInv, NEW s \in Session,
           SubmitBlock(s) \/ Retry(s)
    PROVE  RecordInv'
<1>1. PICK w \in BOOLEAN : Call(s, hit[s].block, w)
  BY DEF SubmitBlock, Retry, Goto, SubmitTypeOK, Hit
<1>2. /\ bpc[s] # "mining"
      /\ \A t \in Session : t # s => bpc'[t] = bpc[t]
      /\ UNCHANGED <<recorded, announced>>
  BY DEF SubmitBlock, Retry, Goto, SubmitTypeOK, fbVars
<1>3. \E res \in {"error", "other", "accepted", "witness"} :
         Answered(s, hit[s].block, w, res)
  BY <1>1, <1>2, CallFacts
<1>4. PICK res \in {"error", "other", "accepted", "witness"} :
         Answered(s, hit[s].block, w, res)
  BY <1>3
<1>5. /\ hit'[s] = [block |-> hit[s].block, witness |-> hit[s].witness, answer |-> res]
      /\ \A t \in Session : t # s => hit'[t] = hit[t]
      /\ chain \subseteq chain'
      /\ res = "accepted" => hit[s].block \notin chain
  BY <1>4 DEF Answered, SubmitTypeOK
<1>6. InHistory(recorded') = InHistory(recorded) /\ NoRepeats(recorded')
  BY <1>2 DEF RecordInv, InHistory, NoRepeats
<1>7. ASSUME NEW t \in Session, bpc'[t] \in {"answered", "final"},
             hit'[t].answer = "accepted"
      PROVE  hit'[t].block \notin InHistory(recorded')
  <2>1. CASE t = s
    BY <1>5, <1>6, <1>7, <2>1 DEF RecordInv
  <2>2. CASE t # s
    BY <1>2, <1>5, <1>6, <1>7, <2>2 DEF RecordInv
  <2> QED
    BY <2>1, <2>2
<1> QED
  BY <1>2, <1>5, <1>6, <1>7 DEF RecordInv

LEMMA RecordStep ==
    ASSUME SubmitTypeOK, HistoryInv, HandlerInv, RecordInv, [SubmitNext]_vars
    PROVE  RecordInv'
<1>1. ASSUME UNCHANGED <<recorded, chain>>, NEW s \in Session,
             \A t \in Session : t # s => bpc'[t] = bpc[t] /\ hit'[t] = hit[t],
             bpc'[s] \notin {"answered", "final"},
             announced' \subseteq announced \cup chain
      PROVE  RecordInv'
  <2>1. InHistory(recorded') = InHistory(recorded) /\ NoRepeats(recorded')
    BY <1>1 DEF RecordInv, InHistory, NoRepeats
  <2> QED
    BY <1>1, <2>1 DEF RecordInv
<1>2. CASE RestartPool
  <2>1. /\ recorded' = Loaded /\ \A s \in Session : bpc'[s] = "mining"
        /\ UNCHANGED <<chain, announced>>
    BY <1>2 DEF RestartPool, Restart
  <2>2. InHistory(Loaded) \subseteq InHistory(recorded) /\ NoRepeats(Loaded)
    <3>1. CASE disk = Torn
      <4>1. Loaded = << >> /\ Len(Loaded) = 0
        BY <3>1 DEF Loaded
      <4>2. 1 .. 0 = {}
        OBVIOUS
      <4> QED
        BY <4>1, <4>2 DEF InHistory, NoRepeats
    <3>2. CASE disk # Torn
      <4>1. IsEarlier(disk) /\ disk \in History
        BY <3>2 DEF HistoryInv, DiskIsAnEarlierHistory, IsEarlier, SubmitTypeOK, FBTypeOK
      <4>2. Loaded = disk
        <5>1. Len(disk) <= MaxFoundBlocks
          BY <4>1, EarlierFacts DEF IsEarlier, SubmitTypeOK
        <5> QED
          BY <3>2, <4>1, <5>1, TrimFacts DEF Loaded
      <4> QED
        BY <4>1, <4>2, EarlierHistoryRecorded DEF SubmitTypeOK, RecordInv
    <3> QED
      BY <3>1, <3>2
  <2>3. InHistory(recorded') = InHistory(Loaded) /\ NoRepeats(recorded')
    BY <2>1, <2>2
  <2> QED
    BY <2>1, <2>2, <2>3 DEF RecordInv
<1>3. ASSUME NEW s \in Session, NEW b \in Block, DecideWitness(s, b)
      PROVE  RecordInv'
  BY <1>1, <1>3 DEF DecideWitness, Goto, SubmitTypeOK, fbVars, historyVars
<1>4. ASSUME NEW s \in Session, LearnRejection(s)
      PROVE  RecordInv'
  BY <1>1, <1>4 DEF LearnRejection, Goto, SubmitTypeOK, fbVars, historyVars
<1>5. ASSUME NEW s \in Session, GiveUp(s)
      PROVE  RecordInv'
  BY <1>1, <1>5 DEF GiveUp, Conclude, SubmitTypeOK, fbVars
<1>6. ASSUME NEW s \in Session, SaveFound(s)
      PROVE  RecordInv'
  <2>1. UNCHANGED <<recorded, chain, announced, bpc, hit>> /\ bpc[s] = "record"
    BY <1>6 DEF SaveFound, Save, CopyHistory, FailOpen, BeginWrite, EndWrite, FailWrite,
                Close, historyVars
  <2> QED
    BY <1>1, <2>1
<1>7. ASSUME NEW s \in Session, Announce(s)
      PROVE  RecordInv'
  <2>1. hit[s].block \in chain
    BY <1>7 DEF Announce, HandlerInv, HandlerKnows
  <2> QED
    BY <1>1, <1>7, <2>1 DEF Announce, Conclude, SubmitTypeOK, fbVars
<1>8. CASE UNCHANGED vars
  <2>1. UNCHANGED <<recorded, chain, announced, bpc, hit>>
    BY <1>8 DEF vars, fbVars, historyVars
  <2>2. InHistory(recorded') = InHistory(recorded) /\ NoRepeats(recorded')
    BY <2>1 DEF RecordInv, InHistory, NoRepeats
  <2> QED
    BY <2>1, <2>2 DEF RecordInv
<1>9. ASSUME NEW s \in Session, Handle(s)
      PROVE  RecordInv'
  BY <1>4, <1>5, <1>6, <1>7, <1>9, RecordHearsAnswer, RecordsFound DEF Handle
<1> QED
  BY <1>2, <1>3, <1>8, <1>9 DEF SubmitNext

LEMMA RecordInit == SubmitInit => RecordInv
<1>1. 1 .. 0 = {} /\ Len(<< >>) = 0
  OBVIOUS
<1> QED
  BY <1>1 DEF SubmitInit, FBInit, RecordInv, InHistory, NoRepeats

(* Only blocks that the node took are recorded, written and announced,    *)
(* and the history names each of them once.                               *)
THEOREM OnlyAcceptedBlocksAreRecordedCorrect ==
    SubmitSpec => []OnlyAcceptedBlocksAreRecorded
<1>1. SubmitTypeOK /\ HistoryInv /\ RecordInv => OnlyAcceptedBlocksAreRecorded
  <2> SUFFICES ASSUME SubmitTypeOK, HistoryInv, RecordInv
               PROVE  OnlyAcceptedBlocksAreRecorded
    OBVIOUS
  <2>1. disk # Torn => InHistory(disk) \subseteq InHistory(recorded)
    BY EarlierHistoryRecorded
    DEF HistoryInv, DiskIsAnEarlierHistory, IsEarlier, SubmitTypeOK
  <2>2. NoRepeats(foundBlocks)
    <3>1. 0 \in 0 .. Len(recorded)
      BY EarlierFacts DEF SubmitTypeOK
    <3>2. IsEarlier(foundBlocks)
      BY <3>1 DEF HistoryInv, DiskIsAnEarlierHistory, IsEarlier
    <3> QED
      BY <3>2, EarlierHistoryRecorded DEF SubmitTypeOK, RecordInv
  <2> QED
    BY <2>1, <2>2 DEF OnlyAcceptedBlocksAreRecorded, RecordInv, NoRepeats
<1>2. SubmitInit => HistoryInv
  BY HistoryInit DEF SubmitInit
<1>3. SubmitTypeOK /\ HistoryInv /\ [SubmitNext]_vars => HistoryInv'
  BY FoundBlocksStep, HistoryStep DEF SubmitTypeOK
<1> QED
  BY <1>1, <1>2, <1>3, SubmitInitTypes, SubmitTypes, HandlerInit, HandlerStep,
     RecordInit, RecordStep, PTL DEF SubmitSpec
=============================================================================
