---------------------------- MODULE MediaProofs -----------------------------
(***************************************************************************)
(* Theorems about the components that handle what comes from outside: the  *)
(* LLM's replies, yt-dlp's and gdown's files, and pasted URLs.             *)
(***************************************************************************)
EXTENDS LlmCorrection, Download, Intake, FiniteSetTheorems, SequenceTheorems, TLAPS

(***************************************************************************)
(* LlmCorrection: for any transcript length and chunk size.                *)
(***************************************************************************)

Chunk(k) == k \div ChunkSize

Places == {"gate", "chunk", "report", "persist", "returned", "timeout"}

\* Where the loop is; a transcript that is skipped never enters it.
Loop ==
    /\ llmInput.segments \in Nat /\ llm \in [pc : Places, i : Nat, failed : SUBSET Nat]
    /\ text \in [Segments -> Int] /\ storedText \in [Segments -> Int]
    /\ llm.failed \subseteq 0..llm.i - 1
    /\ LlmAt("gate") => llm.i = 0
    /\ LlmAt("chunk") => llm.i < ChunkCount
    /\ LlmAt("report") => llm.i = ChunkCount /\ llmInput.segments > 0

NothingStoredEarly == llm.pc # "returned" => \A k \in Segments : storedText[k] = Original

\* What the last message says of the transcript t.
Told(t) ==
    CASE llmShown = "done"     -> \A k \in Segments : t[k] # Original
      [] llmShown = "degraded" -> /\ \E k \in Segments : t[k] # Original
                                  /\ \E k \in Segments : t[k] = Original
      [] OTHER                 -> \A k \in Segments : t[k] = Original

LlmInv ==
    /\ Loop /\ ChunksAreAllOrNothing /\ NothingStoredEarly
    /\ LlmAt("persist") => Told(text)
    /\ LlmAt("returned") => Told(storedText)

-----------------------------------------------------------------------------
(* The chunks partition the segments. *)

LEMMA DivisionBounds ==
    ASSUME NEW k \in Nat, NEW c \in Nat \ {0}
    PROVE  k \div c \in Nat /\ (k \div c) * c <= k /\ k < (k \div c) * c + c
OBVIOUS

LEMMA DivisionUnique ==
    ASSUME NEW k \in Nat, NEW c \in Nat \ {0}, NEW i \in Nat, i * c <= k, k < i * c + c
    PROVE  k \div c = i
OBVIOUS

LEMMA MultiplesApart ==
    ASSUME NEW i \in Nat, NEW j \in Nat, NEW c \in Nat \ {0}, i < j
    PROVE  i * c + c <= j * c
OBVIOUS

LEMMA ChunkCountType ==
    ASSUME llmInput.segments \in Nat
    PROVE  /\ ChunkCount \in Nat /\ (llmInput.segments > 0 => ChunkCount > 0)
           /\ llmInput.segments <= ChunkCount * ChunkSize
           /\ llmInput.segments + ChunkSize - 1 >= ChunkCount * ChunkSize
<1>1. ChunkSize \in Nat \ {0}
  BY LlmAssumption DEF LlmAssumption
<1>2. llmInput.segments + ChunkSize - 1 \in Nat
  BY <1>1
<1>3. /\ ChunkCount \in Nat /\ ChunkCount * ChunkSize <= llmInput.segments + ChunkSize - 1
      /\ llmInput.segments + ChunkSize - 1 < ChunkCount * ChunkSize + ChunkSize
  BY <1>1, <1>2, DivisionBounds DEF ChunkCount
<1>4. llmInput.segments > 0 => ChunkCount # 0
  BY <1>1, <1>3
<1>5. ChunkCount * ChunkSize \in Nat
  BY <1>1, <1>3
<1> HIDE DEF ChunkCount
<1> QED BY <1>1, <1>3, <1>4, <1>5

\* A segment is edited with chunk i exactly if it is one of chunk i.
LEMMA EditsOwnChunk ==
    ASSUME llmInput.segments \in Nat, NEW k \in Segments, NEW i \in Nat
    PROVE  /\ k \in EditItems(i) <=> Chunk(k) = i
           /\ Chunk(k) \in 0..ChunkCount - 1
<1>1. ChunkSize \in Nat \ {0} /\ k \in Nat /\ k < llmInput.segments
  BY LlmAssumption DEF LlmAssumption, Segments
<1>2. /\ Chunk(k) \in Nat /\ Chunk(k) * ChunkSize <= k /\ k < Chunk(k) * ChunkSize + ChunkSize
      /\ Chunk(k) * ChunkSize \in Nat
  BY <1>1, DivisionBounds DEF Chunk
<1>3. i * ChunkSize <= k /\ k < i * ChunkSize + ChunkSize => Chunk(k) = i
  BY <1>1, DivisionUnique DEF Chunk
<1>4. i * ChunkSize \in Nat
  BY <1>1
<1>5. k \in EditItems(i) <=> i * ChunkSize <= k /\ k < i * ChunkSize + ChunkSize
  BY <1>1, <1>4 DEF EditItems, LeastOf
<1>6. Chunk(k) < ChunkCount
  <2>1. ChunkCount \in Nat /\ llmInput.segments <= ChunkCount * ChunkSize
    BY ChunkCountType
  <2>2. Chunk(k) * ChunkSize < ChunkCount * ChunkSize
    BY <1>1, <1>2, <2>1
  <2>3. ChunkCount < Chunk(k) => ChunkCount * ChunkSize + ChunkSize <= Chunk(k) * ChunkSize
    BY <1>1, <1>2, <2>1, MultiplesApart
  <2> QED BY <1>1, <1>2, <2>1, <2>2, <2>3
<1> QED BY <1>2, <1>3, <1>5, <1>6, ChunkCountType

\* Every chunk has a segment.
LEMMA ChunkHasSegment ==
    ASSUME llmInput.segments \in Nat, NEW c \in 0..ChunkCount - 1
    PROVE  \E k \in Segments : Chunk(k) = c
<1>1. ChunkSize \in Nat \ {0} /\ ChunkCount \in Nat /\ c \in Nat /\ c < ChunkCount
      /\ llmInput.segments + ChunkSize - 1 >= ChunkCount * ChunkSize
  BY LlmAssumption, ChunkCountType DEF LlmAssumption
<1>2. c * ChunkSize + ChunkSize <= ChunkCount * ChunkSize /\ c * ChunkSize \in Nat /\ ChunkCount * ChunkSize \in Nat
  BY <1>1, MultiplesApart
<1>3. c * ChunkSize \in Segments
  BY <1>1, <1>2 DEF Segments
<1>4. Chunk(c * ChunkSize) = c
  BY <1>1, <1>2, DivisionUnique DEF Chunk
<1> QED BY <1>3, <1>4

-----------------------------------------------------------------------------
(* The steps. *)

LEMMA ChunkIsNatural ==
    ASSUME llmInput.segments \in Nat
    PROVE  \A k \in Segments : Chunk(k) \in Nat
<1> SUFFICES ASSUME NEW k \in Segments PROVE Chunk(k) \in Nat
  OBVIOUS
<1>1. k \in Nat /\ ChunkSize \in Nat \ {0}
  BY LlmAssumption DEF Segments, LlmAssumption
<1> QED BY <1>1, DivisionBounds DEF Chunk

LEMMA LlmInitInv == LlmInit => LlmInv
<1> SUFFICES ASSUME LlmInit PROVE LlmInv
  OBVIOUS
<1>1. llmInput.segments \in Nat
  <2>1. llmInput.segments \in 0..MaxSegments /\ MaxSegments \in Nat
    BY LlmAssumption DEF LlmInit, LlmInputs, LlmAssumption
  <2> QED BY <2>1
<1>2. Loop
  <2>1. llm \in [pc : Places, i : Nat, failed : SUBSET Nat]
    BY DEF LlmInit, Places
  <2>2. text \in [Segments -> Int] /\ storedText \in [Segments -> Int]
    <3>1. Original \in Int
      BY DEF Original
    <3> QED BY <3>1 DEF LlmInit
  <2> QED BY <1>1, <2>1, <2>2 DEF LlmInit, Loop, LlmAt
<1>3. \A k \in Segments : Chunk(k) \in Nat /\ text[k] = Original /\ storedText[k] = Original
  BY <1>1, ChunkIsNatural DEF LlmInit
<1>4. ChunksAreAllOrNothing
  <2>1. llm.i = 0 /\ llm.failed = {}
    BY DEF LlmInit
  <2>2. \A k \in Segments : ~(Chunk(k) < llm.i)
    BY <1>3, <2>1
  <2> QED BY <1>3, <2>2 DEF ChunksAreAllOrNothing, Chunk
<1> QED BY <1>2, <1>3, <1>4 DEF LlmInv, LlmInit, NothingStoredEarly, LlmAt

\* A stage that has corrected nothing yet, or was never to correct anything.
LEMMA GateKeepsText ==
    ASSUME LlmInv, LlmAt("gate")
    PROVE  \A k \in Segments : text[k] = Original
<1>1. \A k \in Segments : Chunk(k) \in Nat
  BY ChunkIsNatural DEF LlmInv, Loop
<1> QED BY <1>1 DEF LlmInv, Loop, ChunksAreAllOrNothing, Chunk, LlmAt

LEMMA InvSkip == LlmInv /\ SkipTranscript => LlmInv'
<1> SUFFICES ASSUME LlmInv, SkipTranscript PROVE LlmInv'
  OBVIOUS
<1>1. /\ llm' = [pc |-> "persist", i |-> llm.i, failed |-> llm.failed]
      /\ Segments' = Segments /\ ChunkCount' = ChunkCount
  BY DEF LlmInv, Loop, SkipTranscript, Segments, ChunkCount
<1>2. Loop'
  <2>1. llm' \in [pc : Places, i : Nat, failed : SUBSET Nat]
    BY <1>1 DEF LlmInv, Loop, Places
  <2> QED BY <1>1, <2>1 DEF LlmInv, Loop, SkipTranscript, LlmAt
<1>3. ChunksAreAllOrNothing' /\ NothingStoredEarly'
  BY <1>1 DEF LlmInv, SkipTranscript, ChunksAreAllOrNothing, NothingStoredEarly, LlmAt
<1>4. Told(text)'
  BY <1>1, GateKeepsText DEF SkipTranscript, Told
<1> QED BY <1>1, <1>2, <1>3, <1>4 DEF LlmInv, LlmAt

LEMMA InvStart == LlmInv /\ StartChunks => LlmInv'
<1> SUFFICES ASSUME LlmInv, StartChunks PROVE LlmInv'
  OBVIOUS
<1>1. /\ llm' = [pc |-> "chunk", i |-> llm.i, failed |-> llm.failed] /\ llm.i = 0
      /\ Segments' = Segments /\ ChunkCount' = ChunkCount
  BY DEF LlmInv, Loop, StartChunks, Segments, ChunkCount, LlmAt
<1>2. ChunkCount > 0
  BY ChunkCountType DEF LlmInv, Loop, StartChunks
<1>3. Loop'
  <2>1. llm' \in [pc : Places, i : Nat, failed : SUBSET Nat]
    BY <1>1 DEF LlmInv, Loop, Places
  <2> QED BY <1>1, <1>2, <2>1 DEF LlmInv, Loop, StartChunks, LlmAt
<1>4. ChunksAreAllOrNothing' /\ NothingStoredEarly'
  BY <1>1 DEF LlmInv, StartChunks, ChunksAreAllOrNothing, NothingStoredEarly, LlmAt
<1> QED BY <1>1, <1>3, <1>4 DEF LlmInv, LlmAt

\* The end of a round: chunk llm.i is applied exactly if it has not failed.
LEMMA RoundKeeps ==
    ASSUME LlmInv, LlmAt("chunk"), NEW failed, NextChunk(failed), UNCHANGED <<llmInput, storedText>>,
           \/ failed = llm.failed /\ text' = Corrected(EditItems(llm.i), llm.i)
           \/ failed = llm.failed \cup {llm.i} /\ text' = text
    PROVE  LlmInv'
<1>1. /\ llm.i \in Nat /\ llm.i < ChunkCount /\ ChunkCount \in Nat /\ llmInput.segments \in Nat
      /\ llm.failed \in SUBSET Nat /\ llm.failed \subseteq 0..llm.i - 1
  BY ChunkCountType DEF LlmInv, Loop
<1>2. /\ Segments' = Segments /\ ChunkCount' = ChunkCount
      /\ llm'.i = llm.i + 1 /\ llm'.failed = failed
      /\ llm'.pc = IF llm.i + 1 = ChunkCount THEN "report" ELSE "chunk"
  BY DEF NextChunk, Segments, ChunkCount
<1>3. failed \in SUBSET Nat /\ failed \subseteq 0..llm.i
  BY <1>1
<1>4. llmInput.segments > 0
  <2>1. llmInput.segments = 0 => Segments = {}
    BY DEF Segments
  <2>2. \E k \in Segments : Chunk(k) = llm.i
    BY <1>1, ChunkHasSegment
  <2> QED BY <1>1, <2>1, <2>2
<1>5. text' \in [Segments -> Int]
  <2>1. CASE text' = text
    BY <2>1 DEF LlmInv, Loop
  <2>2. CASE text' = Corrected(EditItems(llm.i), llm.i)
    BY <1>1, <2>2 DEF LlmInv, Loop, Corrected
  <2> QED BY <2>1, <2>2
<1>6. Loop'
  <2>1. llm' \in [pc : Places, i : Nat, failed : SUBSET Nat]
    <3>1. llm.i + 1 \in Nat
      BY <1>1
    <3>2. (IF llm.i + 1 = ChunkCount THEN "report" ELSE "chunk") \in Places
      BY DEF Places
    <3> QED BY <1>3, <3>1, <3>2 DEF NextChunk
  <2>2. llm'.failed \subseteq 0..llm'.i - 1
    BY <1>1, <1>2, <1>3
  <2>3. LlmAt("chunk")' => llm'.i < ChunkCount
    BY <1>1, <1>2 DEF LlmAt
  <2> QED BY <1>1, <1>2, <1>4, <1>5, <2>1, <2>2, <2>3 DEF LlmInv, Loop, LlmAt
<1>7. ASSUME NEW k \in Segments
      PROVE  text'[k] = IF Chunk(k) < llm'.i /\ Chunk(k) \notin llm'.failed THEN Chunk(k) ELSE Original
  <2>1. Chunk(k) \in Nat /\ (k \in EditItems(llm.i) <=> Chunk(k) = llm.i)
    BY <1>1, EditsOwnChunk, ChunkIsNatural
  <2>2. text[k] = IF Chunk(k) < llm.i /\ Chunk(k) \notin llm.failed THEN Chunk(k) ELSE Original
    BY DEF LlmInv, ChunksAreAllOrNothing, Chunk, LlmAt
  <2>3. CASE failed = llm.failed /\ text' = Corrected(EditItems(llm.i), llm.i)
    <3>1. text'[k] = IF Chunk(k) = llm.i THEN llm.i ELSE text[k]
      BY <2>1, <2>3 DEF Corrected
    <3>2. llm.i \notin llm.failed
      BY <1>1
    <3> QED BY <1>1, <1>2, <2>1, <2>2, <2>3, <3>1, <3>2
  <2>4. CASE failed = llm.failed \cup {llm.i} /\ text' = text
    BY <1>1, <1>2, <2>1, <2>2, <2>4
  <2> QED BY <2>3, <2>4
<1>8. ChunksAreAllOrNothing'
  BY <1>2, <1>7 DEF ChunksAreAllOrNothing, Chunk
<1>9. NothingStoredEarly'
  BY <1>2 DEF LlmInv, NothingStoredEarly, LlmAt
<1> QED BY <1>2, <1>6, <1>8, <1>9 DEF LlmInv, LlmAt

LEMMA InvAnswered ==
    ASSUME LlmInv, NEW returned, ChunkAnswered(returned)
    PROVE  LlmInv'
<1>1. CASE ReplyAccepted(returned, llm.i)
  BY <1>1, RoundKeeps DEF ChunkAnswered, ReplyAccepted
<1>2. CASE ~ReplyAccepted(returned, llm.i)
  BY <1>2, RoundKeeps DEF ChunkAnswered
<1> QED BY <1>1, <1>2

LEMMA InvFails == LlmInv /\ ChunkFails => LlmInv'
BY RoundKeeps DEF ChunkFails

LEMMA InvTimesOut ==
    ASSUME LlmInv, NEW applied, StageTimesOut(applied)
    PROVE  LlmInv'
<1>1. /\ llm' = [pc |-> "timeout", i |-> llm.i, failed |-> llm.failed]
      /\ Segments' = Segments /\ ChunkCount' = ChunkCount
  BY DEF LlmInv, Loop, StageTimesOut, Segments, ChunkCount
<1>2. Loop'
  <2>1. llm' \in [pc : Places, i : Nat, failed : SUBSET Nat]
    BY <1>1 DEF LlmInv, Loop, Places
  <2>2. text' \in [Segments -> Int]
    BY DEF LlmInv, Loop, StageTimesOut, Corrected
  <2> QED BY <1>1, <2>1, <2>2 DEF LlmInv, Loop, StageTimesOut, LlmAt
<1>3. ChunksAreAllOrNothing'
  BY <1>1 DEF ChunksAreAllOrNothing, LlmAt
<1>4. NothingStoredEarly'
  BY <1>1 DEF LlmInv, StageTimesOut, NothingStoredEarly
<1> QED BY <1>1, <1>2, <1>3, <1>4 DEF LlmInv, LlmAt

\* A set of ChunkCount chunks is the set of all chunks.
LEMMA AllChunksFailed ==
    ASSUME NEW n \in Nat, NEW F, F \subseteq 0..n - 1
    PROVE  /\ Cardinality(F) = n => F = 0..n - 1
           /\ F = 0..n - 1 => Cardinality(F) = n
<1>1. IsFiniteSet(0..n - 1) /\ Cardinality(0..n - 1) = n
  BY FS_Interval
<1>2. Cardinality(0..n - 1) = Cardinality(F) => 0..n - 1 = F
  BY <1>1, FS_Subset
<1> QED BY <1>1, <1>2

\* The outcome reported is the outcome of the chunks.
LEMMA InvReport == LlmInv /\ ReportOutcome => LlmInv'
<1> SUFFICES ASSUME LlmInv, ReportOutcome PROVE LlmInv'
  OBVIOUS
<1>1. /\ llm' = [pc |-> "persist", i |-> llm.i, failed |-> llm.failed]
      /\ Segments' = Segments /\ ChunkCount' = ChunkCount /\ text' = text
  BY DEF LlmInv, Loop, ReportOutcome, Segments, ChunkCount
<1>2. /\ llm.i = ChunkCount /\ ChunkCount \in Nat /\ llmInput.segments \in Nat /\ llmInput.segments > 0
      /\ llm.failed \subseteq 0..ChunkCount - 1
  BY ChunkCountType DEF LlmInv, Loop, ReportOutcome, LlmAt
<1>3. Loop'
  <2>1. llm' \in [pc : Places, i : Nat, failed : SUBSET Nat]
    BY <1>1 DEF LlmInv, Loop, Places
  <2> QED BY <1>1, <2>1 DEF LlmInv, Loop, ReportOutcome, LlmAt
<1>4. ChunksAreAllOrNothing' /\ NothingStoredEarly'
  BY <1>1 DEF LlmInv, ReportOutcome, ChunksAreAllOrNothing, NothingStoredEarly, LlmAt
<1>5. ASSUME NEW k \in Segments
      PROVE  Chunk(k) \in 0..ChunkCount - 1 /\ (text[k] = Original <=> Chunk(k) \in llm.failed)
  <2>1. Chunk(k) \in 0..ChunkCount - 1
    BY <1>2, EditsOwnChunk
  <2>2. text[k] = IF Chunk(k) < llm.i /\ Chunk(k) \notin llm.failed THEN Chunk(k) ELSE Original
    BY DEF LlmInv, ReportOutcome, ChunksAreAllOrNothing, Chunk, LlmAt
  <2> QED BY <1>2, <2>1, <2>2 DEF Original
<1>6. Told(text)'
  <2>1. CASE llm.failed = 0..ChunkCount - 1
    <3>1. llmShown' = "skipped"
      BY <1>2, <2>1, AllChunksFailed DEF ReportOutcome
    <3> QED BY <1>1, <1>5, <2>1, <3>1 DEF Told
  <2>2. CASE llm.failed = {} /\ llm.failed # 0..ChunkCount - 1
    <3>1. llmShown' = "done"
      BY <1>2, <2>2, AllChunksFailed DEF ReportOutcome
    <3> QED BY <1>1, <1>5, <2>2, <3>1 DEF Told
  <2>3. CASE llm.failed # {} /\ llm.failed # 0..ChunkCount - 1
    <3>1. llmShown' = "degraded"
      BY <1>2, <2>3, AllChunksFailed DEF ReportOutcome
    <3>2. PICK c \in 0..ChunkCount - 1 : c \in llm.failed
      BY <1>2, <2>3
    <3>3. PICK d \in 0..ChunkCount - 1 : d \notin llm.failed
      BY <1>2, <2>3
    <3>4. \E k \in Segments : text[k] = Original
      BY <1>2, <1>5, <3>2, ChunkHasSegment
    <3>5. \E k \in Segments : text[k] # Original
      BY <1>2, <1>5, <3>3, ChunkHasSegment
    <3> QED BY <1>1, <3>1, <3>4, <3>5 DEF Told
  <2> QED BY <2>1, <2>2, <2>3
<1> QED BY <1>1, <1>3, <1>4, <1>6 DEF LlmInv, LlmAt

LEMMA InvPersist == LlmInv /\ PersistTranscript => LlmInv'
<1> SUFFICES ASSUME LlmInv, PersistTranscript PROVE LlmInv'
  OBVIOUS
<1>1. /\ llm' = [pc |-> "returned", i |-> llm.i, failed |-> llm.failed]
      /\ Segments' = Segments /\ ChunkCount' = ChunkCount
  BY DEF LlmInv, Loop, PersistTranscript, Segments, ChunkCount
<1>2. Loop'
  <2>1. llm' \in [pc : Places, i : Nat, failed : SUBSET Nat]
    BY <1>1 DEF LlmInv, Loop, Places
  <2> QED BY <1>1, <2>1 DEF LlmInv, Loop, PersistTranscript, LlmAt
<1>3. ChunksAreAllOrNothing' /\ NothingStoredEarly'
  BY <1>1 DEF LlmInv, PersistTranscript, ChunksAreAllOrNothing, NothingStoredEarly, LlmAt
<1>4. Told(storedText)'
  BY <1>1 DEF LlmInv, PersistTranscript, Told
<1> QED BY <1>1, <1>2, <1>3, <1>4 DEF LlmInv, LlmAt

LEMMA LlmStepInv == LlmInv /\ [LlmStep]_llmVars => LlmInv'
<1> SUFFICES ASSUME LlmInv, [LlmStep]_llmVars PROVE LlmInv'
  OBVIOUS
<1>1. CASE \E returned \in SUBSET (0..llmInput.segments) : ChunkAnswered(returned)
  BY <1>1, InvAnswered
<1>2. CASE \E applied \in SUBSET EditItems(llm.i) : StageTimesOut(applied)
  BY <1>2, InvTimesOut
<1>3. CASE UNCHANGED llmVars
  <2>1. Segments' = Segments /\ ChunkCount' = ChunkCount
    BY <1>3 DEF llmVars, Segments, ChunkCount
  <2> QED BY <1>3, <2>1 DEF llmVars, LlmInv, Loop, ChunksAreAllOrNothing, NothingStoredEarly, Told, LlmAt
<1> QED BY <1>1, <1>2, <1>3, InvSkip, InvStart, InvFails, InvReport, InvPersist DEF LlmStep

-----------------------------------------------------------------------------
(* The theorems. *)

\* However long the transcript and whatever the model answers, a chunk is
\* corrected by its own reply or not at all, until the stage is abandoned.
THEOREM ChunksAlwaysAllOrNothing == LlmSpec => []ChunksAreAllOrNothing
<1>1. LlmInv => ChunksAreAllOrNothing
  BY DEF LlmInv
<1> QED BY <1>1, LlmInitInv, LlmStepInv, PTL DEF LlmSpec

\* The message the user sees last is true of the transcript in the context hash.
THEOREM AlwaysStoredAsReported == LlmSpec => []StoredAsReported
<1>1. LlmInv => StoredAsReported
  <2> SUFFICES ASSUME LlmInv PROVE StoredAsReported
    OBVIOUS
  <2> DEFINE corrected == {k \in Segments : storedText[k] # Original}
  <2>1. ~LlmAt("returned") => corrected = {}
    BY DEF LlmInv, NothingStoredEarly, LlmAt
  <2>2. ASSUME LlmAt("returned")
        PROVE  /\ llmShown = "done" => corrected = Segments
               /\ llmShown = "degraded" => corrected # {} /\ corrected # Segments
               /\ llmShown \notin {"done", "degraded"} => corrected = {}
    BY <2>2 DEF LlmInv, Told
  <2> QED BY <2>1, <2>2 DEF StoredAsReported
<1> QED BY <1>1, LlmInitInv, LlmStepInv, PTL DEF LlmSpec

\* The loop counts as far as there are chunks, and writes the numbers of chunks.
LlmBounded ==
    /\ llmInput \in LlmInputs /\ llm.i <= ChunkCount
    /\ text \in [Segments -> Original..MaxSegments] /\ storedText \in [Segments -> Original..MaxSegments]
    /\ llmShown \in {"", "running"} \cup LlmOutcomes

\* There are no more chunks than segments.
LEMMA ChunksFitSegments ==
    ASSUME llmInput \in LlmInputs
    PROVE  ChunkCount \in Nat /\ ChunkCount <= MaxSegments
<1> DEFINE n == llmInput.segments
<1>1. ChunkSize \in Nat \ {0} /\ MaxSegments \in Nat /\ n \in Nat /\ n <= MaxSegments
  BY LlmAssumption DEF LlmAssumption, LlmInputs
<1>2. ChunkCount \in Nat /\ n + ChunkSize - 1 >= ChunkCount * ChunkSize
  BY <1>1, ChunkCountType
<1> HIDE DEF n
<1>3. n < ChunkCount => n * ChunkSize + ChunkSize <= ChunkCount * ChunkSize
  BY <1>1, <1>2, MultiplesApart
<1>4. n * ChunkSize \in Nat /\ n * ChunkSize >= n /\ ChunkCount * ChunkSize \in Nat
  BY <1>1, <1>2
<1> QED BY <1>1, <1>2, <1>3, <1>4

LEMMA LlmBoundedTypes == LlmInv /\ LlmBounded => LlmTypeOK
<1> SUFFICES ASSUME LlmInv, LlmBounded PROVE LlmTypeOK
  OBVIOUS
<1>1. /\ llm \in [pc : Places, i : Nat, failed : SUBSET Nat] /\ llm.failed \subseteq 0..llm.i - 1
      /\ llm.i \in 0..MaxSegments /\ MaxSegments \in Nat
  <2>1. ChunkCount \in Nat /\ ChunkCount <= MaxSegments /\ MaxSegments \in Nat
    BY ChunksFitSegments, LlmAssumption DEF LlmBounded, LlmAssumption
  <2>2. llm \in [pc : Places, i : Nat, failed : SUBSET Nat] /\ llm.failed \subseteq 0..llm.i - 1
    BY DEF LlmInv, Loop
  <2>3. llm.i \in Nat /\ llm.i <= ChunkCount
    BY <2>2 DEF LlmBounded
  <2> QED BY <2>1, <2>2, <2>3
<1>2. llm.failed \in SUBSET (0..MaxSegments)
  BY <1>1
<1>3. llm \in [pc : Places, i : 0..MaxSegments, failed : SUBSET (0..MaxSegments)]
  BY <1>1, <1>2
<1> QED BY <1>3 DEF LlmTypeOK, LlmBounded, Places

LEMMA LlmBoundedKept ==
    ASSUME LlmInv, LlmBounded, [LlmStep]_llmVars
    PROVE  LlmBounded'
<1>1. /\ ChunkCount \in Nat /\ ChunkCount <= MaxSegments /\ MaxSegments \in Nat
      /\ llm \in [pc : Places, i : Nat, failed : SUBSET Nat] /\ (LlmAt("chunk") => llm.i < ChunkCount)
  BY ChunksFitSegments, LlmAssumption DEF LlmInv, Loop, LlmBounded, LlmAssumption
<1>2. llmInput' = llmInput
  BY DEF LlmStep, SkipTranscript, StartChunks, ChunkAnswered, ChunkFails, StageTimesOut, ReportOutcome,
         PersistTranscript, llmVars
<1>3. Segments' = Segments /\ ChunkCount' = ChunkCount
  BY <1>2 DEF Segments, ChunkCount
<1>4. llm'.i <= ChunkCount
  <2>1. ASSUME NEW failed, LlmAt("chunk"), NextChunk(failed) PROVE llm'.i <= ChunkCount
    BY <1>1, <2>1 DEF NextChunk
  <2> QED
    BY <1>1, <2>1 DEF LlmBounded, LlmStep, SkipTranscript, StartChunks, ChunkAnswered, ChunkFails, StageTimesOut,
                      ReportOutcome, PersistTranscript, llmVars
<1>5. text' \in [Segments -> Original..MaxSegments] /\ storedText' \in [Segments -> Original..MaxSegments]
  <2>1. llm.i \in Original..MaxSegments
    <3>1. llm.i \in Nat /\ llm.i <= ChunkCount
      BY <1>1 DEF LlmBounded
    <3> QED BY <1>1, <3>1 DEF Original
  <2>2. \A returned : Corrected(returned, llm.i) \in [Segments -> Original..MaxSegments]
    BY <2>1 DEF Corrected, LlmBounded
  <2> QED
    BY <2>2 DEF LlmBounded, LlmStep, SkipTranscript, StartChunks, ChunkAnswered, ChunkFails, StageTimesOut,
                ReportOutcome, PersistTranscript, llmVars
<1>6. llmShown' \in {"", "running"} \cup LlmOutcomes
  BY DEF LlmBounded, LlmOutcomes, LlmStep, SkipTranscript, StartChunks, ChunkAnswered, ChunkFails, NextChunk,
         StageTimesOut, ReportOutcome, PersistTranscript, llmVars
<1> QED BY <1>2, <1>3, <1>4, <1>5, <1>6 DEF LlmBounded

\* The stage keeps its types: it never counts more chunks than there are segments.
THEOREM LlmTypes == LlmSpec => []LlmTypeOK
<1>1. LlmInit => LlmBounded
  <2> SUFFICES ASSUME LlmInit PROVE LlmBounded
    OBVIOUS
  <2>1. ChunkCount \in Nat /\ MaxSegments \in Nat
    BY ChunksFitSegments, LlmAssumption DEF LlmInit, LlmAssumption
  <2>2. Original \in Original..MaxSegments
    BY <2>1 DEF Original
  <2>3. llm.i <= ChunkCount
    <3>1. llm.i = 0
      BY DEF LlmInit
    <3> HIDE DEF ChunkCount
    <3> QED BY <2>1, <3>1
  <2>4. text \in [Segments -> Original..MaxSegments] /\ storedText \in [Segments -> Original..MaxSegments]
    BY <2>2 DEF LlmInit
  <2> QED BY <2>3, <2>4 DEF LlmInit, LlmBounded
<1> QED BY <1>1, LlmInitInv, LlmStepInv, LlmBoundedKept, LlmBoundedTypes, PTL DEF LlmSpec

-----------------------------------------------------------------------------
(***************************************************************************)
(* Download: for any sources, runs and attempts.                           *)
(***************************************************************************)

DownloadPlaces == {"idle", "probe", "fetch", "resolve", "drive", "inspect", "ended"}

DownloadShape ==
    /\ download \in [source : DownloadSources, run : Nat, try : Nat, pc : DownloadPlaces,
                     reported : BOOLEAN, outcome : {"", "done"} \cup DownloadErrors]
    /\ videos \in [VideoFiles -> Nat]
    /\ raised \in Seq(Raisable)

Transient(source, e) == e.retryable /\ ~(source = "twitter" /\ e.restricted)

\* What yt-dlp has raised while the run goes on: nothing that ends it.
Survived(source, r) == Len(r) < MaxTries /\ \A k \in 1..Len(r) : Transient(source, r[k])

\* A run that has not ended has no outcome; its attempts are counted by its exceptions.
Trying ==
    /\ download.pc # "ended" => download.outcome = "" /\ Survived(download.source, raised)
    /\ download.pc \in {"probe", "fetch"} => download.try = Len(raised) + 1
    /\ download.source = "gdrive" => raised = << >>

\* The directory of a run of yt-dlp holds files of this run.
OwnVideos == \A f \in VideoFiles : videos[f] \in {0, download.run}

Downloading ==
    /\ download.pc \in {"probe", "fetch", "resolve"} =>
          download.source # "gdrive" /\ download.run > 0 /\ OwnVideos
    /\ download.pc \in {"drive", "inspect"} => download.source = "gdrive"
    /\ DownloadAt("resolve") /\ download.reported => videos["merged"] = download.run

\* How a run has ended, as its exceptions decide.
Classified(d, r) ==
    CASE d.outcome = "transient"  -> Len(r) = MaxTries /\ \A k \in 1..Len(r) : Transient(d.source, r[k])
      [] d.outcome = "restricted" -> \E k \in 1..Len(r) : k = Len(r) /\ r[k].restricted
      [] d.outcome = "failed" /\ d.source # "gdrive" -> \E k \in 1..Len(r) : k = Len(r) /\ ~Transient(d.source, r[k])
      [] OTHER -> Survived(d.source, r)

Attempted ==
    /\ Trying
    /\ \A k \in 1..Len(raised) - 1 : Transient(download.source, raised[k])
    /\ DownloadAt("ended") => Classified(download, raised)

DownloadInv == DownloadShape /\ Attempted /\ Downloading /\ MediaIsOfThisRun

\* Nothing changes what kind of URL a job has.
LEMMA SourceKept ==
    ASSUME DownloadShape, [DownloadStep]_downloadVars
    PROVE  download'.source = download.source
BY DEF DownloadShape, DownloadStep, DownloadWorks, StartDownload, Resolve, InspectDriveFile,
      FetchReturnsNothing, ProbeRaises, ProbeAnswers, FetchRaises, FetchReturns, DriveFails, DriveReturns,
      DownloadTimesOut, DownloadKilled, YtDlpRaises, EndDownload, downloadVars

\* What an exception adds.
LEMMA Raising ==
    ASSUME DownloadShape, Trying, NEW e \in Raisable, YtDlpRaises(e), download.pc \in {"probe", "fetch"}
    PROVE  /\ raised' \in Seq(Raisable) /\ Len(raised') = download.try /\ raised'[download.try] = e
           /\ download.try \in 1..MaxTries /\ Len(raised) = download.try - 1
           /\ \A k \in 1..download.try - 1 : raised'[k] = raised[k] /\ Transient(download.source, raised[k])
<1>1. raised \in Seq(Raisable) /\ raised' = Append(raised, e)
  BY DEF YtDlpRaises, DownloadShape
<1>2. /\ raised' \in Seq(Raisable) /\ Len(raised') = Len(raised) + 1 /\ raised'[Len(raised) + 1] = e
      /\ \A k \in 1..Len(raised) : raised'[k] = raised[k]
  BY <1>1, AppendProperties
<1>3. Len(raised) \in Nat /\ download.try = Len(raised) + 1 /\ Survived(download.source, raised)
  BY <1>1, LenProperties DEF Trying
<1> QED BY <1>2, <1>3, DownloadAssumption DEF DownloadAssumption, Survived

LEMMA DownloadShapeKept ==
    ASSUME DownloadShape, Trying, [DownloadStep]_downloadVars
    PROVE  DownloadShape'
<1>a. download.run \in Nat /\ download.try \in Nat
  BY DEF DownloadShape
<1>b. download.run + 1 \in Nat /\ download.try + 1 \in Nat /\ 1 \in Nat /\ 0 \in Nat
  BY <1>a
<1> USE DEF DownloadShape, DownloadPlaces
<1>1. CASE StartDownload
  <2>1. raised' \in Seq(Raisable)
    BY <1>1, EmptySeq DEF StartDownload
  <2>2. videos' \in [VideoFiles -> Nat]
    <3>1. videos' = videos \/ videos' = NoVideos
      BY <1>1 DEF StartDownload, ClearStale
    <3>2. NoVideos \in [VideoFiles -> Nat]
      BY <1>b DEF NoVideos
    <3> QED BY <3>1, <3>2
  <2>3. \/ download' = [download EXCEPT !.run = download.run + 1, !.pc = "drive", !.outcome = ""]
        \/ download' = [download EXCEPT !.run = download.run + 1, !.pc = "probe", !.try = 1, !.outcome = ""]
    BY <1>1 DEF StartDownload
  <2> QED BY <1>b, <2>1, <2>2, <2>3
<1>2. CASE Resolve
  BY <1>2 DEF Resolve, EndDownload, DownloadErrors
<1>3. CASE InspectDriveFile
  BY <1>3 DEF InspectDriveFile, EndDownload, DownloadErrors
<1>4. CASE FetchReturnsNothing
  BY <1>4 DEF FetchReturnsNothing, EndDownload, DownloadErrors
<1>5. ASSUME NEW files \in SUBSET VideoFiles, Leaves(files)
      PROVE  videos' \in [VideoFiles -> Nat]
  BY <1>5 DEF Leaves
<1>6. ASSUME NEW e \in Raisable, YtDlpRaises(e), download.pc \in {"probe", "fetch"}
      PROVE  raised' \in Seq(Raisable) /\ download' \in [source : DownloadSources, run : Nat, try : Nat, pc : DownloadPlaces,
                     reported : BOOLEAN, outcome : {"", "done"} \cup DownloadErrors]
  <2>1. raised' \in Seq(Raisable)
    BY <1>6, Raising
  <2>2. Classify(e) \in DownloadErrors
    BY DEF Classify, DownloadErrors
  <2>3. \/ download' = [download EXCEPT !.try = download.try + 1, !.pc = "probe"]
        \/ download' = [download EXCEPT !.pc = "ended", !.outcome = Classify(e)]
    BY <1>6 DEF YtDlpRaises, EndDownload
  <2> QED BY <1>b, <2>1, <2>2, <2>3
<1>7. ASSUME NEW e \in Raisable, ProbeRaises(e) PROVE DownloadShape'
  BY <1>7, <1>6 DEF ProbeRaises, DownloadAt
<1>8. ASSUME NEW info \in {"none", "live", "long", "video"}, ProbeAnswers(info) PROVE DownloadShape'
  BY <1>8 DEF ProbeAnswers, EndDownload, DownloadErrors
<1>9. ASSUME NEW e \in Raisable, NEW files \in SUBSET VideoFiles, FetchRaises(e, files) PROVE DownloadShape'
  BY <1>9, <1>5, <1>6 DEF FetchRaises, DownloadAt
<1>10. ASSUME NEW files \in SUBSET VideoFiles, NEW reported \in BOOLEAN, FetchReturns(files, reported)
       PROVE  DownloadShape'
  BY <1>10, <1>5 DEF FetchReturns
<1>11. ASSUME NEW outcome \in {"rejected", "failed"}, DriveFails(outcome) PROVE DownloadShape'
  BY <1>11 DEF DriveFails, EndDownload, DownloadErrors
<1>12. ASSUME NEW file \in DriveFiles, DriveReturns(file) PROVE DownloadShape'
  BY <1>12 DEF DriveReturns
<1>13. ASSUME NEW files \in SUBSET VideoFiles, DownloadTimesOut(files) PROVE DownloadShape'
  BY <1>13, <1>5 DEF DownloadTimesOut, EndDownload, DownloadErrors
<1>14. ASSUME NEW files \in SUBSET VideoFiles, DownloadKilled(files) PROVE DownloadShape'
  BY <1>14, <1>5 DEF DownloadKilled
<1>15. CASE UNCHANGED downloadVars
  BY <1>15 DEF downloadVars
<1> QED BY <1>1, <1>2, <1>3, <1>4, <1>7, <1>8, <1>9, <1>10, <1>11, <1>12, <1>13, <1>14, <1>15
        DEF DownloadStep, DownloadWorks

\* The exception ends the run, or there is another attempt.
LEMMA RaisesKeeps ==
    ASSUME DownloadShape, Downloading, Attempted, NEW e \in Raisable, YtDlpRaises(e),
           download.pc \in {"probe", "fetch"}
    PROVE  Attempted'
<1> DEFINE n == download.try
<1>0. Transient(download.source, e) <=> Classify(e) = "transient"
  BY DEF Transient, Classify
<1>1. /\ raised' \in Seq(Raisable) /\ Len(raised') = n /\ raised'[n] = e
      /\ n \in 1..MaxTries /\ Len(raised) = n - 1
      /\ \A k \in 1..n - 1 : raised'[k] = raised[k] /\ Transient(download.source, raised[k])
  BY Raising DEF Attempted
<1>2. download.source # "gdrive" /\ download'.source = download.source /\ n \in Nat /\ MaxTries \in Nat
  BY SourceKept, DownloadAssumption DEF DownloadShape, Downloading, DownloadAssumption, YtDlpRaises, EndDownload
<1>3. \A k \in 1..Len(raised') - 1 : Transient(download.source, raised'[k])
  BY <1>1
<1>4. CASE Transient(download.source, e) /\ n < MaxTries
  <2>1. download'.pc = "probe" /\ download'.try = n + 1 /\ download'.outcome = ""
    BY <1>0, <1>2, <1>4 DEF YtDlpRaises, DownloadShape, Attempted, Trying
  <2>2. \A k \in 1..Len(raised') : Transient(download.source, raised'[k])
    BY <1>1, <1>4, <1>2
  <2> QED BY <1>1, <1>2, <1>3, <1>4, <2>1, <2>2 DEF Attempted, Trying, Survived, DownloadAt
<1>5. CASE ~(Transient(download.source, e) /\ n < MaxTries)
  <2>1. download'.pc = "ended" /\ download'.outcome = Classify(e)
    BY <1>0, <1>5 DEF YtDlpRaises, EndDownload, DownloadShape
  <2>2. Trying'
    BY <1>2, <2>1 DEF Trying
  <2>3. Classified(download', raised')
    <3>1. CASE Classify(e) = "transient"
      <4>1. n = MaxTries
        BY <1>0, <1>1, <1>2, <1>5, <3>1
      <4>2. \A k \in 1..Len(raised') : Transient(download.source, raised'[k])
        BY <1>0, <1>1, <1>2, <3>1
      <4> QED BY <1>1, <1>2, <2>1, <3>1, <4>1, <4>2 DEF Classified
    <3>2. CASE Classify(e) = "restricted"
      <4>1. e.restricted
        BY <3>2 DEF Classify
      <4> QED BY <1>1, <1>2, <2>1, <3>2, <4>1 DEF Classified
    <3>3. CASE Classify(e) = "failed"
      <4>1. ~Transient(download.source, e)
        BY <1>0, <3>3
      <4> QED BY <1>1, <1>2, <2>1, <3>3, <4>1 DEF Classified
    <3> QED BY <3>1, <3>2, <3>3 DEF Classify
  <2>4. DownloadAt("ended")' => Classified(download, raised)'
    BY <2>3 DEF Classified
  <2> QED BY <1>2, <1>3, <2>2, <2>4 DEF Attempted
<1> QED BY <1>4, <1>5

\* A step of a run that raises nothing: the run goes on, or ends as something else.
Quietly ==
    /\ raised' = raised /\ download.pc # "ended"
    /\ \/ /\ download'.pc \in {"fetch", "resolve", "inspect", "idle"}
          /\ download'.outcome = download.outcome /\ download'.try = download.try
          /\ download'.pc = "fetch" => download.pc = "probe"
       \/ download'.pc = "ended" /\ download'.outcome \in {"done", "rejected", "timeout"}
       \/ download'.pc = "ended" /\ download'.outcome = "failed" /\ download.source = "gdrive"

LEMMA EndsKeep ==
    ASSUME DownloadShape, Attempted, download'.source = download.source, Quietly
    PROVE  Attempted'
<1> USE DEF Quietly
<1>1. Survived(download.source, raised)
  BY DEF Attempted, Trying
<1>2. \A k \in 1..Len(raised') - 1 : Transient(download.source, raised'[k])
  BY DEF Attempted
<1>3. Trying'
  BY <1>1 DEF Attempted, Trying
<1>4. DownloadAt("ended")' => Classified(download, raised)'
  BY <1>1 DEF Classified, DownloadAt, Attempted, Trying
<1> QED BY <1>2, <1>3, <1>4 DEF Attempted

LEMMA AttemptedKept ==
    ASSUME DownloadShape, Downloading, Attempted, [DownloadStep]_downloadVars
    PROVE  Attempted'
<1>1. download'.source = download.source
  BY SourceKept
<1>2. CASE StartDownload
  <2>1. raised' = << >>
    BY <1>2 DEF StartDownload
  <2>2. Len(raised') = 0
    BY <2>1, EmptySeq
  <2>3. /\ download'.pc \in {"drive", "probe"} /\ download'.outcome = ""
        /\ download'.pc = "probe" => download'.try = 1
    BY <1>2 DEF StartDownload, DownloadShape
  <2>4. Survived(download'.source, raised')
    BY <2>2, DownloadAssumption DEF Survived, DownloadAssumption
  <2>5. Trying'
    <3>1. download'.pc \in {"probe", "fetch"} => download'.try = Len(raised') + 1
      <4>1. 1 = Len(raised') + 1
        BY <2>2
      <4>2. download'.pc \in {"probe", "fetch"} => download'.try = 1
        BY <2>3
      <4> QED BY <4>1, <4>2
    <3> QED BY <2>1, <2>3, <2>4, <3>1 DEF Trying
  <2>6. \A k \in 1..Len(raised') - 1 : Transient(download'.source, raised'[k])
    BY <2>2
  <2> QED BY <2>3, <2>5, <2>6 DEF Attempted, DownloadAt
<1>3. CASE UNCHANGED downloadVars
  <2>1. UNCHANGED <<download, raised>>
    BY <1>3 DEF downloadVars
  <2> QED BY <2>1 DEF Attempted, Trying, Survived, Classified, DownloadAt
<1>4. ASSUME NEW e \in Raisable, YtDlpRaises(e), download.pc \in {"probe", "fetch"}
      PROVE  Attempted'
  BY <1>4, RaisesKeeps
<1>5. CASE Resolve
  <2>1. download'.pc = "ended" /\ download'.outcome \in {"done", "rejected"}
        /\ download.pc = "resolve" /\ raised' = raised
    BY <1>5 DEF Resolve, EndDownload, DownloadAt, DownloadShape
  <2> QED BY <1>1, <2>1, EndsKeep DEF Quietly
<1>6. CASE InspectDriveFile
  <2>1. download'.pc = "ended" /\ download'.outcome \in {"done", "rejected"}
        /\ download.pc = "inspect" /\ raised' = raised
    BY <1>6 DEF InspectDriveFile, EndDownload, DownloadAt, DownloadShape
  <2> QED BY <1>1, <2>1, EndsKeep DEF Quietly
<1>7. CASE FetchReturnsNothing
  <2>1. download'.pc = "ended" /\ download'.outcome = "rejected" /\ download.pc = "fetch" /\ raised' = raised
    BY <1>7 DEF FetchReturnsNothing, EndDownload, DownloadAt, DownloadShape
  <2> QED BY <1>1, <2>1, EndsKeep DEF Quietly
<1>8. ASSUME NEW info \in {"none", "live", "long", "video"}, ProbeAnswers(info) PROVE Attempted'
  <2>1. /\ download.pc = "probe" /\ raised' = raised
        /\ \/ download'.pc = "ended" /\ download'.outcome = "rejected"
           \/ download'.pc = "fetch" /\ download'.outcome = download.outcome /\ download'.try = download.try
    BY <1>8 DEF ProbeAnswers, EndDownload, DownloadAt, DownloadShape
  <2> QED BY <1>1, <2>1, EndsKeep DEF Quietly
<1>9. ASSUME NEW files \in SUBSET VideoFiles, NEW reported \in BOOLEAN, FetchReturns(files, reported)
       PROVE  Attempted'
  <2>1. download.pc = "fetch" /\ raised' = raised /\ download'.pc = "resolve"
        /\ download'.outcome = download.outcome /\ download'.try = download.try
    BY <1>9 DEF FetchReturns, DownloadAt, DownloadShape
  <2> QED BY <1>1, <2>1, EndsKeep DEF Quietly
<1>10. ASSUME NEW outcome \in {"rejected", "failed"}, DriveFails(outcome) PROVE Attempted'
  <2>1. download.pc = "drive" /\ raised' = raised /\ download'.pc = "ended" /\ download'.outcome = outcome
    BY <1>10 DEF DriveFails, EndDownload, DownloadAt, DownloadShape
  <2>2. download.source = "gdrive"
    BY <2>1 DEF Downloading
  <2> QED BY <1>1, <2>1, <2>2, EndsKeep DEF Quietly
<1>11. ASSUME NEW file \in DriveFiles, DriveReturns(file) PROVE Attempted'
  <2>1. download.pc = "drive" /\ raised' = raised /\ download'.pc = "inspect"
        /\ download'.outcome = download.outcome /\ download'.try = download.try
    BY <1>11 DEF DriveReturns, DownloadAt, DownloadShape
  <2> QED BY <1>1, <2>1, EndsKeep DEF Quietly
<1>12. ASSUME NEW files \in SUBSET VideoFiles, DownloadTimesOut(files) PROVE Attempted'
  <2>1. download.pc # "ended" /\ raised' = raised /\ download'.pc = "ended" /\ download'.outcome = "timeout"
    BY <1>12 DEF DownloadTimesOut, EndDownload, DownloadShape
  <2> QED BY <1>1, <2>1, EndsKeep DEF Quietly
<1>13. ASSUME NEW files \in SUBSET VideoFiles, DownloadKilled(files) PROVE Attempted'
  <2>1. download.pc # "ended" /\ raised' = raised /\ download'.pc = "idle"
        /\ download'.outcome = download.outcome /\ download'.try = download.try
    BY <1>13 DEF DownloadKilled, DownloadShape
  <2> QED BY <1>1, <2>1, EndsKeep DEF Quietly
<1> QED BY <1>2, <1>3, <1>4, <1>5, <1>6, <1>7, <1>8, <1>9, <1>10, <1>11, <1>12, <1>13
        DEF DownloadStep, DownloadWorks, ProbeRaises, FetchRaises, DownloadAt

\* What one run leaves in the directory is its own.
LEMMA LeavesOwn ==
    ASSUME DownloadShape, OwnVideos, NEW files \in SUBSET VideoFiles, Leaves(files),
           download'.run = download.run
    PROVE  OwnVideos' /\ ("merged" \in files => videos'["merged"] = download.run)
BY DEF DownloadShape, OwnVideos, Leaves, VideoFiles

LEMMA DownloadingKept ==
    ASSUME DownloadShape, Downloading, [DownloadStep]_downloadVars
    PROVE  Downloading'
<1>1. download.run \in Nat /\ download'.source = download.source
  BY SourceKept DEF DownloadShape
<1>2. ASSUME download'.pc \in {"ended", "idle"} PROVE Downloading'
  BY <1>2 DEF Downloading, DownloadAt
<1>3. CASE StartDownload
  <2>1. CASE download.source = "gdrive"
    <3>1. download'.pc = "drive"
      BY <1>3, <2>1 DEF StartDownload, DownloadShape
    <3> QED BY <1>1, <2>1, <3>1 DEF Downloading, DownloadAt
  <2>2. CASE download.source # "gdrive"
    <3>1. download'.pc = "probe" /\ download'.run = download.run + 1 /\ videos' = NoVideos
      BY <1>3, <2>2 DEF StartDownload, ClearStale, DownloadShape
    <3>2. OwnVideos'
      BY <3>1 DEF OwnVideos, NoVideos
    <3>3. download'.run > 0
      BY <1>1, <3>1
    <3> QED BY <1>1, <2>2, <3>1, <3>2, <3>3 DEF Downloading, DownloadAt
  <2> QED BY <2>1, <2>2
<1>4. CASE UNCHANGED downloadVars
  BY <1>4 DEF downloadVars, Downloading, DownloadAt, OwnVideos
<1>5. CASE Resolve \/ InspectDriveFile \/ FetchReturnsNothing
  <2>1. download'.pc = "ended"
    BY <1>5 DEF Resolve, InspectDriveFile, FetchReturnsNothing, EndDownload, DownloadShape
  <2> QED BY <1>2, <2>1
\* An attempt that is followed by another one.
<1>6. ASSUME NEW e \in Raisable, YtDlpRaises(e), download.pc \in {"probe", "fetch"}, OwnVideos'
      PROVE  Downloading'
  <2>1. download'.run = download.run /\ download'.pc \in {"probe", "ended"}
    BY <1>6 DEF YtDlpRaises, EndDownload, DownloadShape
  <2> QED BY <1>1, <1>6, <2>1 DEF Downloading, DownloadAt
<1>7. ASSUME NEW e \in Raisable, ProbeRaises(e) PROVE Downloading'
  <2>1. download.pc = "probe" /\ OwnVideos
    BY <1>7 DEF ProbeRaises, DownloadAt, Downloading
  <2>2. download'.run = download.run
    BY <1>7 DEF ProbeRaises, YtDlpRaises, EndDownload, DownloadShape
  <2>3. OwnVideos'
    BY <1>7, <2>1, <2>2 DEF ProbeRaises, OwnVideos
  <2> QED BY <1>6, <1>7, <2>1, <2>3 DEF ProbeRaises
<1>8. ASSUME NEW e \in Raisable, NEW files \in SUBSET VideoFiles, FetchRaises(e, files) PROVE Downloading'
  <2>1. download.pc = "fetch" /\ OwnVideos
    BY <1>8 DEF FetchRaises, DownloadAt, Downloading
  <2>2. download'.run = download.run
    BY <1>8 DEF FetchRaises, YtDlpRaises, EndDownload, DownloadShape
  <2>3. OwnVideos'
    BY <1>8, <2>1, <2>2, LeavesOwn DEF FetchRaises
  <2> QED BY <1>6, <1>8, <2>1, <2>3 DEF FetchRaises
<1>9. ASSUME NEW info \in {"none", "live", "long", "video"}, ProbeAnswers(info) PROVE Downloading'
  <2>1. download.pc = "probe" /\ download'.pc \in {"fetch", "ended"} /\ download'.run = download.run
        /\ videos' = videos
    BY <1>9 DEF ProbeAnswers, EndDownload, DownloadAt, DownloadShape
  <2> QED BY <1>1, <2>1 DEF Downloading, DownloadAt, OwnVideos
<1>10. ASSUME NEW files \in SUBSET VideoFiles, NEW reported \in BOOLEAN, FetchReturns(files, reported)
       PROVE  Downloading'
  <2>1. download.pc = "fetch" /\ download'.pc = "resolve" /\ download'.run = download.run
        /\ download'.reported = reported /\ (reported => "merged" \in files)
    BY <1>10 DEF FetchReturns, DownloadAt, DownloadShape
  <2>2. download.source # "gdrive" /\ download.run > 0 /\ OwnVideos
    BY <2>1 DEF Downloading
  <2>3. OwnVideos' /\ ("merged" \in files => videos'["merged"] = download.run)
    BY <1>10, <2>1, <2>2, LeavesOwn DEF FetchReturns
  <2> QED BY <1>1, <2>1, <2>2, <2>3 DEF Downloading, DownloadAt
<1>11. ASSUME NEW file \in DriveFiles, DriveReturns(file) PROVE Downloading'
  <2>1. download.pc = "drive" /\ download'.pc = "inspect"
    BY <1>11 DEF DriveReturns, DownloadAt, DownloadShape
  <2> QED BY <1>1, <2>1 DEF Downloading, DownloadAt
<1>12. ASSUME \/ \E outcome \in {"rejected", "failed"} : DriveFails(outcome)
              \/ \E files \in SUBSET VideoFiles : DownloadTimesOut(files)
              \/ \E files \in SUBSET VideoFiles : DownloadKilled(files)
       PROVE  Downloading'
  <2>1. download'.pc \in {"ended", "idle"}
    BY <1>12 DEF DriveFails, DownloadTimesOut, DownloadKilled, EndDownload, DownloadShape
  <2> QED BY <1>2, <2>1
<1> QED BY <1>3, <1>4, <1>5, <1>7, <1>8, <1>9, <1>10, <1>11, <1>12 DEF DownloadStep, DownloadWorks

LEMMA FirstIsCandidate == Candidates # {} => First(Candidates) \in Candidates
<1> SUFFICES ASSUME Candidates # {} PROVE First(Candidates) \in Candidates
  OBVIOUS
<1>1. PICK c \in Candidates : c = "track" \/ Candidates = {"merged"}
  BY DEF Candidates, VideoFiles
<1>2. \A g \in Candidates : c = "track" \/ g = c \/ (c = "merged" /\ g = "part")
  BY <1>1
<1> QED BY <1>2 DEF First

\* Only two steps settle for a file; each finds one that this run has put there.
LEMMA MediaKept ==
    ASSUME DownloadInv, [DownloadStep]_downloadVars
    PROVE  MediaIsOfThisRun'
<1> USE DEF DownloadInv
<1>1. ASSUME download'.outcome # "done" PROVE MediaIsOfThisRun'
  BY <1>1 DEF MediaIsOfThisRun
<1>2. CASE Resolve
  <2>1. download.pc = "resolve" /\ OwnVideos /\ download.run \in Nat /\ download.run > 0
    BY <1>2 DEF Resolve, DownloadAt, Downloading, DownloadShape
  <2>2. CASE download.reported
    <3>1. media' = [file |-> "merged", run |-> videos["merged"]] /\ download'.run = download.run
      BY <1>2, <2>2 DEF Resolve, EndDownload, DownloadShape
    <3> QED BY <2>1, <2>2, <3>1 DEF Downloading, DownloadAt, MediaIsOfThisRun
  <2>3. CASE ~download.reported /\ Candidates # {}
    <3>3. First(Candidates) \in Candidates
      BY <2>3, FirstIsCandidate
    <3>4. First(Candidates) \in {"track", "merged"} /\ videos[First(Candidates)] = download.run
      BY <2>1, <3>3 DEF Candidates, OwnVideos, VideoFiles
    <3>5. /\ media' = [file |-> First(Candidates), run |-> videos[First(Candidates)]]
          /\ download'.run = download.run
      BY <1>2, <2>3 DEF Resolve, EndDownload, DownloadShape
    <3> QED BY <3>4, <3>5 DEF MediaIsOfThisRun
  <2>4. CASE ~download.reported /\ Candidates = {}
    <3>1. download'.outcome = "rejected"
      BY <1>2, <2>4 DEF Resolve, EndDownload, DownloadShape
    <3> QED BY <1>1, <3>1
  <2> QED BY <2>2, <2>3, <2>4
<1>3. CASE InspectDriveFile
  <2>1. CASE driveFile = "usable"
    <3>1. media' = [file |-> "usable", run |-> download.run] /\ download'.run = download.run
      BY <1>3, <2>1 DEF InspectDriveFile, EndDownload, DownloadShape
    <3> QED BY <3>1 DEF MediaIsOfThisRun
  <2>2. CASE driveFile # "usable"
    <3>1. download'.outcome = "rejected"
      BY <1>3, <2>2 DEF InspectDriveFile, EndDownload, DownloadShape
    <3> QED BY <1>1, <3>1
  <2> QED BY <2>1, <2>2
<1>4. CASE UNCHANGED downloadVars
  BY <1>4 DEF downloadVars, MediaIsOfThisRun
\* Any other step starts a run, leaves it without an outcome, or ends it as a failure.
<1>5. CASE StartDownload
  <2>1. download'.outcome = ""
    BY <1>5 DEF StartDownload, DownloadShape
  <2> QED BY <1>1, <2>1
<1>6. ASSUME NEW e, YtDlpRaises(e), download.pc \in {"probe", "fetch"} PROVE download'.outcome # "done"
  <2>1. Classify(e) # "done" /\ download.outcome = ""
    BY <1>6 DEF Classify, Attempted, Trying
  <2> QED BY <1>6, <2>1 DEF YtDlpRaises, EndDownload, DownloadShape
<1>7. ASSUME DownloadWorks, ~Resolve, ~InspectDriveFile PROVE download'.outcome # "done"
  <2>1. download.pc # "ended" => download.outcome = ""
    BY DEF Attempted, Trying
  <2>2. ASSUME NEW e \in Raisable, ProbeRaises(e) PROVE download'.outcome # "done"
    BY <1>6, <2>2 DEF ProbeRaises, DownloadAt
  <2>3. ASSUME NEW e \in Raisable, NEW files \in SUBSET VideoFiles, FetchRaises(e, files)
        PROVE  download'.outcome # "done"
    BY <1>6, <2>3 DEF FetchRaises, DownloadAt
  <2>4. ASSUME NEW info \in {"none", "live", "long", "video"}, ProbeAnswers(info)
        PROVE  download'.outcome # "done"
    BY <2>1, <2>4 DEF ProbeAnswers, DownloadAt, EndDownload, DownloadShape
  <2>5. ASSUME NEW files \in SUBSET VideoFiles, NEW reported \in BOOLEAN, FetchReturns(files, reported)
        PROVE  download'.outcome # "done"
    BY <2>1, <2>5 DEF FetchReturns, DownloadAt, DownloadShape
  <2>6. ASSUME NEW file \in DriveFiles, DriveReturns(file) PROVE download'.outcome # "done"
    BY <2>1, <2>6 DEF DriveReturns, DownloadAt, DownloadShape
  <2>7. ASSUME NEW outcome \in {"rejected", "failed"}, DriveFails(outcome) PROVE download'.outcome # "done"
    BY <2>7 DEF DriveFails, EndDownload, DownloadShape
  <2>8. ASSUME NEW files \in SUBSET VideoFiles, DownloadTimesOut(files) PROVE download'.outcome # "done"
    BY <2>8 DEF DownloadTimesOut, EndDownload, DownloadShape
  <2>9. FetchReturnsNothing => download'.outcome # "done"
    BY DEF FetchReturnsNothing, EndDownload, DownloadShape
  <2> QED BY <1>7, <2>2, <2>3, <2>4, <2>5, <2>6, <2>7, <2>8, <2>9 DEF DownloadWorks
<1>8. ASSUME NEW files \in SUBSET VideoFiles, DownloadKilled(files) PROVE MediaIsOfThisRun'
  <2>1. download'.outcome = ""
    BY <1>8 DEF DownloadKilled, DownloadShape, Attempted, Trying
  <2> QED BY <1>1, <2>1
<1> QED BY <1>1, <1>2, <1>3, <1>4, <1>5, <1>7, <1>8 DEF DownloadStep

\* The inductive invariant of the runs of the download stage: a run that goes on has no
\* outcome and has survived only transient exceptions, one for each attempt before this
\* one, and from its start on the directory holds no file of another run.
THEOREM DownloadCorrect == DownloadSpec => []DownloadInv
<1>1. DownloadInit => DownloadInv
  <2> SUFFICES ASSUME DownloadInit PROVE DownloadInv
    OBVIOUS
  <2>1. download.pc = "idle" /\ download.outcome = ""
    BY DEF DownloadInit
  <2>2. DownloadShape
    <3>1. 0 \in Nat /\ raised \in Seq(Raisable)
      BY EmptySeq DEF DownloadInit
    <3>2. videos \in [VideoFiles -> Nat]
      BY <3>1 DEF DownloadInit, NoVideos
    <3> QED BY <3>1, <3>2 DEF DownloadInit, DownloadShape, DownloadPlaces
  <2>3. Len(raised) = 0
    BY EmptySeq DEF DownloadInit
  <2>4. Survived(download.source, raised)
    BY <2>3, DownloadAssumption DEF Survived, DownloadAssumption
  <2>5. Attempted
    <3>1. \A k \in 1..Len(raised) - 1 : Transient(download.source, raised[k])
      BY <2>3
    <3> QED BY <2>1, <2>4, <3>1 DEF Attempted, Trying, DownloadAt, DownloadInit
  <2>6. Downloading /\ MediaIsOfThisRun
    BY <2>1 DEF Downloading, MediaIsOfThisRun, DownloadAt
  <2> QED BY <2>2, <2>5, <2>6 DEF DownloadInv
<1>2. DownloadInv /\ [DownloadStep]_downloadVars => DownloadInv'
  BY DownloadShapeKept, AttemptedKept, DownloadingKept, MediaKept DEF DownloadInv, Attempted
<1> QED BY <1>1, <1>2, PTL DEF DownloadSpec

\* Preprocess is handed a file of the very run that ended well, for any sources, any
\* number of runs in the directory and whatever a killed or failing one leaves there.
THEOREM MediaAlwaysOfThisRun == DownloadSpec => []MediaIsOfThisRun
<1>1. DownloadInv => MediaIsOfThisRun
  BY DEF DownloadInv
<1> QED BY <1>1, DownloadCorrect, PTL

\* How a run of yt-dlp ends follows from all that it raised, for any number of attempts.
THEOREM ErrorsAlwaysClassified == DownloadSpec => []ErrorsAreClassified
<1>1. ASSUME DownloadInv PROVE ErrorsAreClassified
  <2> USE <1>1 DEF DownloadInv, Attempted, Transient
  <2>1. raised \in Seq(Raisable) /\ Len(raised) \in Nat /\ MaxTries \in Nat /\ MaxTries > 0
    <3>1. raised \in Seq(Raisable)
      BY DEF DownloadShape
    <3>2. MaxTries \in Nat /\ MaxTries > 0
      BY DownloadAssumption DEF DownloadAssumption
    <3> QED BY <3>1, <3>2, LenProperties
  <2>2. raised = << >> <=> Len(raised) = 0
    BY <2>1, EmptySeq
  <2>3. ASSUME DownloadAt("ended"), download.outcome = "transient"
        PROVE  Len(raised) = MaxTries /\ Transient(download.source, raised[MaxTries])
    BY <2>1, <2>3 DEF Classified
  <2>4. ASSUME DownloadAt("ended"), download.outcome = "restricted"
        PROVE  raised # << >> /\ Last(raised).restricted
    BY <2>1, <2>2, <2>4 DEF Classified, Last
  <2>5. ASSUME DownloadAt("ended"), download.outcome = "failed", download.source # "gdrive"
        PROVE  raised # << >> /\ ~Transient(download.source, Last(raised))
    BY <2>1, <2>2, <2>5 DEF Classified, Last
  <2>6. ASSUME DownloadAt("ended"), download.outcome \notin {"transient", "restricted"},
               ~(download.outcome = "failed" /\ download.source # "gdrive")
        PROVE  Len(raised) # MaxTries /\ \A k \in 1..Len(raised) : Transient(download.source, raised[k])
    BY <2>1, <2>6 DEF Classified, Survived
  <2> QED BY <2>3, <2>4, <2>5, <2>6 DEF ErrorsAreClassified
<1> QED BY <1>1, DownloadCorrect, PTL

\* The bounds on what the runs count.
DownloadBounded ==
    /\ download.run <= MaxDownloads /\ download.try <= MaxTries /\ Len(raised) <= MaxTries
    /\ videos \in [VideoFiles -> 0..MaxDownloads] /\ driveFile \in DriveFiles
    /\ media \in [file : VideoFiles \cup DriveFiles, run : 0..MaxDownloads]

LEMMA DownloadBoundedTypes == DownloadInv /\ DownloadBounded => DownloadTypeOK
<1> SUFFICES ASSUME DownloadInv, DownloadBounded PROVE DownloadTypeOK
  OBVIOUS
<1>1. /\ download \in [source : DownloadSources, run : Nat, try : Nat, pc : DownloadPlaces,
                       reported : BOOLEAN, outcome : {"", "done"} \cup DownloadErrors]
      /\ raised \in Seq(Raisable)
  BY DEF DownloadInv, DownloadShape
<1>n. MaxTries \in Nat /\ MaxDownloads \in Nat
  BY DownloadAssumption DEF DownloadAssumption
<1>2. download.run \in 0..MaxDownloads /\ download.try \in 0..MaxTries
  <2>1. download.run <= MaxDownloads /\ download.try <= MaxTries /\ download.run \in Nat /\ download.try \in Nat
    BY <1>1 DEF DownloadBounded
  <2> QED BY <1>n, <2>1
<1>3. download \in [source : DownloadSources, run : 0..MaxDownloads, try : 0..MaxTries, pc : DownloadPlaces,
                    reported : BOOLEAN, outcome : {"", "done"} \cup DownloadErrors]
  BY <1>1, <1>2
<1>4. raised \in BoundedSeq(Raisable, MaxTries)
  <2>1. Len(raised) \in Nat /\ raised \in [1..Len(raised) -> Raisable]
    BY <1>1, LenProperties
  <2>2. Len(raised) <= MaxTries
    BY DEF DownloadBounded
  <2>3. Len(raised) \in 0..MaxTries
    BY <1>n, <2>1, <2>2
  <2> QED BY <2>1, <2>3 DEF BoundedSeq, SeqOf
<1> QED BY <1>3, <1>4 DEF DownloadTypeOK, DownloadBounded, DownloadPlaces

LEMMA DownloadBoundedKept ==
    ASSUME DownloadInv, DownloadBounded, [DownloadStep]_downloadVars
    PROVE  DownloadBounded'
<1> USE DEF DownloadBounded
<1>1. /\ MaxTries \in Nat \ {0} /\ MaxDownloads \in Nat /\ DownloadShape /\ Trying
      /\ download.run \in Nat /\ download.try \in Nat
  BY DownloadAssumption DEF DownloadAssumption, DownloadInv, DownloadShape, Attempted
<1>2. download.run \in 0..MaxDownloads /\ 0 \in 0..MaxDownloads
  BY <1>1
<1>3. NoVideos \in [VideoFiles -> 0..MaxDownloads] /\ NoMedia \in [file : VideoFiles \cup DriveFiles, run : 0..MaxDownloads]
  BY <1>2 DEF NoVideos, NoMedia, DriveFiles
<1>4. ASSUME NEW files, Leaves(files)
      PROVE  videos' \in [VideoFiles -> 0..MaxDownloads]
  BY <1>2, <1>4 DEF Leaves
<1>5. ASSUME NEW e \in Raisable, YtDlpRaises(e), download.pc \in {"probe", "fetch"}
      PROVE  /\ download'.run = download.run /\ download'.try <= MaxTries
             /\ Len(raised') <= MaxTries
  <2>1. Len(raised') = download.try /\ download.try \in 1..MaxTries
    BY <1>1, <1>5, Raising
  <2>2. \/ download' = [download EXCEPT !.try = download.try + 1, !.pc = "probe"] /\ download.try < MaxTries
        \/ download' = [download EXCEPT !.pc = "ended", !.outcome = Classify(e)]
    BY <1>5 DEF YtDlpRaises, EndDownload
  <2>3. \/ download'.run = download.run /\ download'.try = download.try + 1 /\ download.try < MaxTries
        \/ download'.run = download.run /\ download'.try = download.try
    BY <1>1, <2>2 DEF DownloadShape
  <2>4. download'.try <= MaxTries
    BY <1>1, <2>1, <2>3
  <2>5. Len(raised') <= MaxTries
    BY <1>1, <2>1
  <2> QED BY <2>3, <2>4, <2>5
<1>6. CASE StartDownload
  <2>1. Len(raised') = 0 /\ media' = NoMedia /\ driveFile' = driveFile
    BY <1>6 DEF StartDownload
  <2>2. videos' \in [VideoFiles -> 0..MaxDownloads]
    BY <1>3, <1>6 DEF StartDownload, ClearStale
  <2>3. download'.run = download.run + 1 /\ download.run < MaxDownloads /\ download'.try \in {1, download.try}
    BY <1>1, <1>6 DEF StartDownload, DownloadShape
  <2> QED BY <1>1, <1>3, <2>1, <2>2, <2>3
<1>7. CASE Resolve
  <2>1. UNCHANGED <<videos, driveFile, raised>> /\ download'.run = download.run /\ download'.try = download.try
    BY <1>1, <1>7 DEF Resolve, EndDownload, DownloadShape
  <2>2. \/ media' = media
        \/ \E file \in VideoFiles : media' = [file |-> file, run |-> videos[file]]
    BY <1>7, FirstIsCandidate DEF Resolve, Candidates, VideoFiles
  <2> QED BY <2>1, <2>2
<1>8. CASE InspectDriveFile
  <2>1. UNCHANGED <<videos, raised>> /\ download'.run = download.run /\ download'.try = download.try
    BY <1>1, <1>8 DEF InspectDriveFile, EndDownload, DownloadShape
  <2>2. driveFile' \in DriveFiles /\ media' \in [file : VideoFiles \cup DriveFiles, run : 0..MaxDownloads]
    BY <1>2, <1>8 DEF InspectDriveFile, DriveFiles
  <2> QED BY <2>1, <2>2
<1>9. ASSUME NEW e \in Raisable, ProbeRaises(e) PROVE DownloadBounded'
  BY <1>5, <1>9 DEF ProbeRaises, DownloadAt
<1>10. ASSUME NEW e \in Raisable, NEW files \in SUBSET VideoFiles, FetchRaises(e, files) PROVE DownloadBounded'
  BY <1>4, <1>5, <1>10 DEF FetchRaises, DownloadAt
<1>11. ASSUME NEW files \in SUBSET VideoFiles, NEW reported \in BOOLEAN, FetchReturns(files, reported)
       PROVE  DownloadBounded'
  BY <1>1, <1>4, <1>11 DEF FetchReturns, DownloadShape
<1>12. ASSUME NEW files \in SUBSET VideoFiles, DownloadTimesOut(files) \/ DownloadKilled(files)
       PROVE  DownloadBounded'
  BY <1>1, <1>4, <1>12 DEF DownloadTimesOut, DownloadKilled, EndDownload, DownloadShape
<1>13. ASSUME NEW info \in {"none", "live", "long", "video"}, ProbeAnswers(info) PROVE DownloadBounded'
  BY <1>1, <1>13 DEF ProbeAnswers, EndDownload, DownloadShape
<1>14. ASSUME NEW outcome, DriveFails(outcome) PROVE DownloadBounded'
  BY <1>1, <1>14 DEF DriveFails, EndDownload, DownloadShape
<1>15. ASSUME NEW file \in DriveFiles, DriveReturns(file) PROVE DownloadBounded'
  BY <1>1, <1>15 DEF DriveReturns, DownloadShape
<1>16. CASE FetchReturnsNothing
  BY <1>1, <1>16 DEF FetchReturnsNothing, EndDownload, DownloadShape
<1>17. CASE UNCHANGED downloadVars
  BY <1>17 DEF downloadVars
<1> QED BY <1>6, <1>7, <1>8, <1>9, <1>10, <1>11, <1>12, <1>13, <1>14, <1>15, <1>16, <1>17
        DEF DownloadStep, DownloadWorks

\* The runs keep their types: no run makes more attempts, nor raises more, than it may.
THEOREM DownloadTypes == DownloadSpec => []DownloadTypeOK
<1>1. DownloadInit => DownloadBounded
  <2> SUFFICES ASSUME DownloadInit PROVE DownloadBounded
    OBVIOUS
  <2>1. /\ download.run = 0 /\ download.try = 0 /\ Len(raised) = 0
        /\ MaxTries \in Nat /\ MaxDownloads \in Nat
    BY DownloadAssumption DEF DownloadInit, DownloadAssumption
  <2>2. 0 \in 0..MaxDownloads
    BY <2>1
  <2>3. download.run <= MaxDownloads /\ download.try <= MaxTries /\ Len(raised) <= MaxTries
    BY <2>1
  <2> QED BY <2>2, <2>3 DEF DownloadInit, DownloadBounded, NoVideos, NoMedia, DriveFiles
<1>2. DownloadInv /\ DownloadBounded /\ [DownloadStep]_downloadVars => DownloadBounded'
  BY DownloadBoundedKept
<1> QED BY <1>1, <1>2, DownloadCorrect, DownloadBoundedTypes, PTL DEF DownloadSpec

-----------------------------------------------------------------------------
(***************************************************************************)
(* Intake: for any URL and any ids.                                        *)
(***************************************************************************)

\* The canonical forms that the validators write are what they say.
LEMMA CanonicalParts ==
    ASSUME NEW v
    PROVE  /\ WatchUrl(v).scheme = "https" /\ WatchUrl(v).host = "youtube" /\ WatchUrl(v).path = "watch"
           /\ WatchUrl(v).v = v /\ WatchUrl(v).list = "none"
           /\ PlaylistUrl(v).scheme = "https" /\ PlaylistUrl(v).host = "youtube"
           /\ PlaylistUrl(v).path = "playlist" /\ PlaylistUrl(v).list = v
           /\ DriveUrl(v).scheme = "https" /\ DriveUrl(v).host = "drive" /\ DriveUrl(v).path = "uc"
           /\ DriveUrl(v).id = v
           /\ PostUrl(v).scheme = "https" /\ PostUrl(v).host = "x" /\ PostUrl(v).path = "status"
           /\ PostUrl(v).seg = v
BY DEF WatchUrl, PlaylistUrl, DriveUrl, PostUrl, NoUrl

LEMMA VerdictParts ==
    ASSUME NEW x
    PROVE  Valid(x).error = "" /\ Valid(x).url = x /\ Invalid(x).error = x
BY DEF Valid, Invalid

LEMMA HostsApart ==
    ASSUME NEW u
    PROVE  /\ u.host \in YouTubeHosts => ~IsGoogleDrive(u) /\ ~IsTwitter(u)
           /\ IsGoogleDrive(u) => ~IsTwitter(u)
BY DEF YouTubeHosts, DriveHosts, TwitterHosts, IsGoogleDrive, IsTwitter

\* A validator accepts the canonical URL of its kind again, as itself.
LEMMA CanonicalAgain ==
    /\ \A id \in VideoIds :
          /\ Kind(WatchUrl(id)) = "youtube" /\ Routed(WatchUrl(id)) = Valid(WatchUrl(id))
          /\ Kind(DriveUrl(id)) = "gdrive" /\ Routed(DriveUrl(id)) = Valid(DriveUrl(id))
          /\ Kind(PostUrl(id)) = "twitter" /\ Routed(PostUrl(id)) = Valid(PostUrl(id))
    /\ \A list \in ListIds :
          Kind(PlaylistUrl(list)) = "playlist" /\ Routed(PlaylistUrl(list)) = Valid(PlaylistUrl(list))
<1>1. \A id \in VideoIds : id # "none"
  BY IntakeAssumption DEF IntakeAssumption
<1>2. ASSUME NEW id \in VideoIds
      PROVE  Kind(WatchUrl(id)) = "youtube" /\ Routed(WatchUrl(id)) = Valid(WatchUrl(id))
  <2> DEFINE u == WatchUrl(id)
  <2>1. u.scheme = "https" /\ u.host = "youtube" /\ u.path = "watch" /\ u.v = id /\ u.list = "none"
    BY CanonicalParts
  <2> HIDE DEF u
  <2>2. VideoIdOf(u) = id
    BY <1>1, <2>1 DEF VideoIdOf
  <2>3. Kind(u) = "youtube"
    BY <2>1 DEF Kind, IsGoogleDrive, IsTwitter, IsPlaylist, YouTubeHosts, DriveHosts, TwitterHosts
  <2>4. Routed(u) = Valid(WatchUrl(id))
    BY <2>1, <2>2, <2>3 DEF Routed, ValidateYouTube, YouTubeHosts
  <2> QED BY <2>3, <2>4 DEF u
<1>3. ASSUME NEW list \in ListIds
      PROVE  Kind(PlaylistUrl(list)) = "playlist" /\ Routed(PlaylistUrl(list)) = Valid(PlaylistUrl(list))
  <2> DEFINE u == PlaylistUrl(list)
  <2>1. u.scheme = "https" /\ u.host = "youtube" /\ u.path = "playlist" /\ u.list = list
    BY CanonicalParts
  <2> HIDE DEF u
  <2>2. list \notin UnsupportedLists
    BY DEF ListIds, UnsupportedLists
  <2>3. Kind(u) = "playlist"
    BY <2>1 DEF Kind, IsGoogleDrive, IsTwitter, IsPlaylist, YouTubeHosts, DriveHosts, TwitterHosts
  <2>4. Routed(u) = Valid(PlaylistUrl(list))
    BY <2>1, <2>2, <2>3 DEF Routed, ValidatePlaylist, YouTubeHosts
  <2> QED BY <2>3, <2>4 DEF u
<1>4. ASSUME NEW id \in VideoIds
      PROVE  Kind(DriveUrl(id)) = "gdrive" /\ Routed(DriveUrl(id)) = Valid(DriveUrl(id))
  <2> DEFINE u == DriveUrl(id)
  <2>1. u.scheme = "https" /\ u.host = "drive" /\ u.path = "uc" /\ u.id = id
    BY CanonicalParts
  <2> HIDE DEF u
  <2>2. FileIdOf(u) = id
    BY <2>1 DEF FileIdOf
  <2>3. Kind(u) = "gdrive"
    BY <2>1 DEF Kind, IsGoogleDrive, DriveHosts
  <2>4. Routed(u) = Valid(DriveUrl(id))
    BY <2>1, <2>2, <2>3 DEF Routed, ValidateDrive, DriveHosts
  <2> QED BY <2>3, <2>4 DEF u
<1>5. ASSUME NEW id \in VideoIds
      PROVE  Kind(PostUrl(id)) = "twitter" /\ Routed(PostUrl(id)) = Valid(PostUrl(id))
  <2> DEFINE u == PostUrl(id)
  <2>1. u.scheme = "https" /\ u.host = "x" /\ u.path = "status" /\ u.seg = id
    BY CanonicalParts
  <2> HIDE DEF u
  <2>2. Kind(u) = "twitter"
    BY <2>1 DEF Kind, IsGoogleDrive, IsTwitter, DriveHosts, TwitterHosts
  <2>3. Routed(u) = Valid(PostUrl(id))
    BY <2>1, <2>2 DEF Routed, ValidateTwitter, TwitterHosts
  <2> QED BY <2>2, <2>3 DEF u
<1> QED BY <1>2, <1>3, <1>4, <1>5

\* What a valid line is stored as.
LEMMA StoredAs ==
    ASSUME NEW u, Routed(u).error = ""
    PROVE  \/ Kind(u) = "gdrive"   /\ \E id \in VideoIds : Routed(u) = Valid(DriveUrl(id))
           \/ Kind(u) = "twitter"  /\ \E id \in VideoIds : Routed(u) = Valid(PostUrl(id))
           \/ Kind(u) = "playlist" /\ \E list \in ListIds : Routed(u) = Valid(PlaylistUrl(list))
           \/ Kind(u) = "youtube"  /\ \E id \in VideoIds : Routed(u) = Valid(WatchUrl(id))
<1>1. \A e : Invalid(e).error = e
  BY VerdictParts
<1>2. CASE Kind(u) = "gdrive"
  BY <1>1, <1>2 DEF Routed, ValidateDrive
<1>3. CASE Kind(u) = "twitter"
  BY <1>1, <1>3 DEF Routed, ValidateTwitter
<1>4. CASE Kind(u) = "playlist"
  BY <1>1, <1>4 DEF Routed, ValidatePlaylist
<1>5. CASE Kind(u) = "youtube"
  BY <1>1, <1>5 DEF Routed, ValidateYouTube
<1> QED BY <1>2, <1>3, <1>4, <1>5 DEF Kind

\* The quick check of the route and the validator agree on what a playlist is.
LEMMA PlaylistAgreed ==
    ASSUME NEW u, u.scheme = "https", u.host \in YouTubeHosts
    PROVE  IsPlaylist(u) <=> ValidateYouTube(u).error = "playlist"
<1>1. /\ \A e : Invalid(e).error = e
      /\ \A x : Valid(x).error = ""
  BY VerdictParts
<1> QED BY <1>1 DEF IsPlaylist, ValidateYouTube

\* The canonical URL is accepted as itself, stays of its kind, and goes to its downloader.
LEMMA CanonicalAgreed ==
    ASSUME NEW u, Routed(u).error = ""
    PROVE  LET canonical == Routed(u).url
           IN  /\ Routed(canonical) = Routed(u) /\ Kind(canonical) = Kind(u)
               /\ Kind(u) # "playlist" => DownloaderOf(canonical) = Kind(u)
<1> DEFINE canonical == Routed(u).url
<1>1. \A x : Valid(x).url = x
  BY VerdictParts
<1>2. Routed(canonical) = Routed(u) /\ Kind(canonical) = Kind(u)
  <2>1. CASE \E id \in VideoIds : Routed(u) = Valid(WatchUrl(id)) /\ Kind(u) = "youtube"
    BY <1>1, <2>1, CanonicalAgain
  <2>2. CASE \E id \in VideoIds : Routed(u) = Valid(DriveUrl(id)) /\ Kind(u) = "gdrive"
    BY <1>1, <2>2, CanonicalAgain
  <2>3. CASE \E id \in VideoIds : Routed(u) = Valid(PostUrl(id)) /\ Kind(u) = "twitter"
    BY <1>1, <2>3, CanonicalAgain
  <2>4. CASE \E list \in ListIds : Routed(u) = Valid(PlaylistUrl(list)) /\ Kind(u) = "playlist"
    BY <1>1, <2>4, CanonicalAgain
  <2> QED BY <2>1, <2>2, <2>3, <2>4, StoredAs
<1>3. \A w : Kind(w) # "playlist" => DownloaderOf(w) = Kind(w)
  BY DEF Kind, DownloaderOf
<1> QED BY <1>2, <1>3

\* For every URL there is and any ids: the routes, the validators and the worker agree on
\* what a link is, and the stored form of a valid one is a fixed point of them all.
THEOREM RoutingAlwaysAgrees == IntakeSpec => []RoutingAgrees
<1>1. RoutingAgrees
  BY PlaylistAgreed, CanonicalAgreed DEF RoutingAgrees
<1> QED BY <1>1, PTL

-----------------------------------------------------------------------------
(***************************************************************************)
(* Intake: a submission, for any lines, playlists and size of a batch.     *)
(* What the loops have done so far is told of the positions that they took *)
(* (Gathered, Saved): the counts are cardinalities of those sets.          *)
(***************************************************************************)

\* The pairs of a key of f and a place in the sequence that f gives to it.
Parts(f) == UNION {{k} \X (1..Len(f[k])) : k \in DOMAIN f}

\* The list holds what f found, each find as often as f found it.
Gathered(f, list) ==
    /\ Range(list) = UNION {Range(f[k]) : k \in DOMAIN f}
    /\ IsFiniteSet(Parts(f)) /\ Len(list) = Cardinality(Parts(f))

\* The lines the first loop is done with, and what it found there.
Read == IF IntakeAt("expand") THEN ValidLines \ intake.left ELSE ValidLines
Finds == [k \in Read |-> Found(k)]

\* The unique URLs the second loop is done with, and what it inserted for them.
Done == Unique(urls) \ intake.left
Saved ==
    /\ Inserted = {urls[k] : k \in Done} /\ Len(jobs) = Cardinality(Done)
    /\ intake.failed = Cardinality(WithStatus(jobs, "failed"))
    /\ IntakeAt("enqueue") => intake.submitted + 1 = Cardinality(WithStatus(jobs, "queued"))
    /\ ~IntakeAt("enqueue") => \/ intake.submitted = Cardinality(WithStatus(jobs, "queued"))
                              \/ /\ intake.submitted + 1 = Cardinality(WithStatus(jobs, "queued"))
                                 /\ intake.outcome = "error"

NothingSaved == jobs = <<>> /\ intake.submitted = 0 /\ intake.failed = 0 /\ intake.deduped = 0

\* A batch that nothing rejects any more.
Admitted == intake.pc \in {"insert", "enqueue"} \/ intake.outcome \in {"error", "accepted"}

Rows == [url : Urls, status : {"queued", "failed"}]

IntakeInv ==
    /\ IntakeTypeOK /\ urls \in Seq(Urls) /\ jobs \in Seq(Rows)
    /\ intake.outcome = "" <=> ~IntakeAt("answered")
    /\ IntakeAt("lines") => NothingSaved /\ urls = <<>> /\ expanded = NoPlaylists
    /\ IntakeAt("expand") =>
          /\ NothingSaved /\ intake.left \subseteq ValidLines
          /\ \A k \in Read : IsPlaylistLine(k) => Token(k) \in DOMAIN expanded
    /\ IntakeAt("expand") \/ Admitted => Gathered(Finds, urls)
    /\ Admitted => /\ Len(urls) <= MaxBatch /\ intake.left \subseteq Unique(urls) /\ Saved
                   /\ intake.deduped = Len(urls) - Cardinality(Unique(urls))
    /\ IntakeAt("enqueue") => jobs # <<>> /\ jobs[Len(jobs)].status = "queued"
    /\ intake.outcome \in Rejections => jobs = <<>>
    /\ intake.outcome = "accepted" => intake.left = {}

\* A set of naturals has a smallest member.
LEMMA Smallest ==
    ASSUME NEW S \in SUBSET Nat, S # {}
    PROVE  \E k \in S : \A j \in S : k <= j
<1> DEFINE less == OpToRel(<, Nat)
<1>1. \E k \in S : \A j \in S : <<j, k>> \notin less
  BY NatLessThanWellFounded, WFMin
<1>2. \A j, k \in Nat : <<j, k>> \in less <=> j < k
  BY DEF OpToRel
<1> HIDE DEF less
<1>3. PICK k \in S : \A j \in S : <<j, k>> \notin less
  BY <1>1
<1>4. ASSUME NEW j \in S
      PROVE  k <= j
  <2>1. j \in Nat /\ k \in Nat /\ ~(j < k)
    BY <1>2, <1>3
  <2> QED BY <2>1
<1> QED BY <1>4

LEMMA UpTo ==
    ASSUME NEW n \in Nat
    PROVE  IsFiniteSet(1..n) /\ Cardinality(1..n) = n
<1>1. \A a, b \in Int : IsFiniteSet(a..b) /\ Cardinality(a..b) = IF a > b THEN 0 ELSE b - a + 1
  BY FS_Interval, Zenon
<1>2. IsFiniteSet(1..n) /\ Cardinality(1..n) = IF 1 > n THEN 0 ELSE n - 1 + 1
  BY <1>1
<1> QED BY <1>2

\* The first places of a list's members: each member has one.
LEMMA FirstPlaces ==
    ASSUME NEW T, NEW list \in Seq(T)
    PROVE  /\ Unique(list) \subseteq 1..Len(list) /\ IsFiniteSet(Unique(list))
           /\ Cardinality(Unique(list)) \in Nat /\ Cardinality(Unique(list)) <= Len(list)
           /\ \A j, k \in Unique(list) : list[j] = list[k] => j = k
           /\ {list[k] : k \in Unique(list)} = Range(list)
<1>1. Unique(list) \subseteq 1..Len(list) /\ Len(list) \in Nat
  BY LenProperties DEF Unique
<1>2. IsFiniteSet(1..Len(list)) /\ Cardinality(1..Len(list)) = Len(list)
  BY <1>1, UpTo
<1>3. IsFiniteSet(Unique(list)) /\ Cardinality(Unique(list)) <= Len(list)
  BY <1>1, <1>2, FS_Subset
<1>4. Cardinality(Unique(list)) \in Nat
  BY <1>3, FS_CardinalityType
<1>5. ASSUME NEW j \in Unique(list), NEW k \in Unique(list), list[j] = list[k], j < k
      PROVE  FALSE
  BY <1>1, <1>5 DEF Unique
<1>6. ASSUME NEW i \in 1..Len(list)
      PROVE  \E k \in Unique(list) : list[k] = list[i]
  <2> DEFINE same == {k \in 1..Len(list) : list[k] = list[i]}
  <2>1. same \subseteq Nat /\ same # {}
    BY <1>1, <1>6
  <2>2. PICK k \in same : \A j \in same : k <= j
    BY <2>1, Smallest
  <2> QED BY <1>1, <2>2 DEF Unique
<1>7. Range(list) = {list[i] : i \in 1..Len(list)}
  BY RangeEquality
<1> QED
  <2>1. \A j, k \in Unique(list) : list[j] = list[k] => j = k
    BY <1>1, <1>5
  <2>2. {list[k] : k \in Unique(list)} = Range(list)
    BY <1>1, <1>6, <1>7
  <2> QED BY <1>1, <1>3, <1>4, <2>1, <2>2

\* A list without repetitions on S has as many members there as S.
LEMMA AsManyMembers ==
    ASSUME NEW S, IsFiniteSet(S), NEW list, \A j, k \in S : list[j] = list[k] => j = k
    PROVE  Cardinality({list[k] : k \in S}) = Cardinality(S)
<1> DEFINE T == {list[k] : k \in S}
           f == [k \in S |-> list[k]]
<1>1. f \in Bijection(S, T)
  BY DEF Bijection, Injection, Surjection, IsInjective
<1> QED BY <1>1, FS_Bijection DEF ExistsBijection

\* A new key adds the places of its sequence.
LEMMA PartsGrow ==
    ASSUME NEW f, NEW k, NEW T, NEW found \in Seq(T), k \notin DOMAIN f, IsFiniteSet(Parts(f)),
           NEW g, DOMAIN g = DOMAIN f \cup {k}, g[k] = found, \A j \in DOMAIN f : g[j] = f[j]
    PROVE  IsFiniteSet(Parts(g)) /\ Cardinality(Parts(g)) = Cardinality(Parts(f)) + Len(found)
<1> DEFINE new == {k} \X (1..Len(found))
<1>1. Parts(g) = Parts(f) \cup new
  BY DEF Parts
<1>2. Parts(f) \cap new = {}
  BY DEF Parts
<1>3. IsFiniteSet(new) /\ Cardinality(new) = Len(found)
  <2>1. Len(found) \in Nat
    BY LenProperties
  <2>2. IsFiniteSet(1..Len(found)) /\ Cardinality(1..Len(found)) = Len(found)
    BY <2>1, UpTo
  <2>3. IsFiniteSet({k}) /\ Cardinality({k}) = 1
    BY FS_Singleton
  <2> QED BY <2>1, <2>2, <2>3, FS_Product
<1>4. Cardinality({}) = 0 /\ Cardinality(Parts(f)) \in Nat /\ Len(found) \in Nat
  BY FS_EmptySet, FS_CardinalityType, LenProperties
<1> HIDE DEF new
<1>5. /\ IsFiniteSet(Parts(f) \cup new)
      /\ Cardinality(Parts(f) \cup new)
            = Cardinality(Parts(f)) + Cardinality(new) - Cardinality(Parts(f) \cap new)
  BY <1>3, FS_Union
<1>6. Cardinality(Parts(f) \cap new) = 0
  BY <1>2, <1>4
<1>7. Cardinality(Parts(f) \cup new) = Cardinality(Parts(f)) + Len(found)
  BY <1>3, <1>4, <1>5, <1>6
<1> QED BY <1>1, <1>5, <1>7

\* One more line read keeps the count and the contents.
LEMMA GatheredGrow ==
    ASSUME NEW f, NEW k, NEW T, NEW list \in Seq(T), NEW found \in Seq(T), k \notin DOMAIN f,
           Gathered(f, list),
           NEW g, DOMAIN g = DOMAIN f \cup {k}, g[k] = found, \A j \in DOMAIN f : g[j] = f[j]
    PROVE  Gathered(g, list \o found)
<1>1. IsFiniteSet(Parts(g)) /\ Cardinality(Parts(g)) = Cardinality(Parts(f)) + Len(found)
  <2>1. IsFiniteSet(Parts(f))
    BY DEF Gathered
  <2> QED BY <2>1, PartsGrow
<1>2. Range(list \o found) = Range(list) \cup Range(found)
  BY RangeConcatenation
<1>3. UNION {Range(g[j]) : j \in DOMAIN g} = (UNION {Range(f[j]) : j \in DOMAIN f}) \cup Range(found)
  <2>1. Range(g[k]) = Range(found) /\ \A j \in DOMAIN f : Range(g[j]) = Range(f[j])
    BY Zenon
  <2> QED BY <2>1
<1>4. Len(list \o found) = Len(list) + Len(found)
  BY ConcatProperties
<1> QED BY <1>1, <1>2, <1>3, <1>4 DEF Gathered

\* Every row is queued or failed.
LEMMA StatusCounts ==
    ASSUME NEW rows \in Seq(Rows)
    PROVE  LET queued == WithStatus(rows, "queued")
               failed == WithStatus(rows, "failed")
           IN  /\ IsFiniteSet(queued) /\ IsFiniteSet(failed)
               /\ Cardinality(queued) \in Nat /\ Cardinality(failed) \in Nat
               /\ Cardinality(queued) + Cardinality(failed) = Len(rows)
<1> DEFINE queued == WithStatus(rows, "queued")
           failed == WithStatus(rows, "failed")
<1>1. Len(rows) \in Nat /\ \A j \in 1..Len(rows) : rows[j].status \in {"queued", "failed"}
  <2>1. Len(rows) \in Nat /\ \A j \in 1..Len(rows) : rows[j] \in Rows
    BY LenProperties, ElementOfSeq
  <2> QED BY <2>1 DEF Rows
<1>2. queued \cup failed = 1..Len(rows) /\ queued \cap failed = {}
  BY <1>1 DEF WithStatus
<1> HIDE DEF queued, failed
<1>3. IsFiniteSet(1..Len(rows)) /\ Cardinality(1..Len(rows)) = Len(rows)
  BY <1>1, UpTo
<1>4. IsFiniteSet(queued) /\ IsFiniteSet(failed)
  BY <1>2, <1>3, FS_Subset
<1>5. Cardinality(queued) \in Nat /\ Cardinality(failed) \in Nat
  BY <1>4, FS_CardinalityType
<1>6. Cardinality(queued \cup failed)
         = Cardinality(queued) + Cardinality(failed) - Cardinality(queued \cap failed)
  BY <1>4, FS_Union
<1>7. Cardinality(queued \cap failed) = 0
  BY <1>2, FS_EmptySet
<1>8. Cardinality(queued \cup failed) = Len(rows)
  BY <1>2, <1>3
<1>9. Cardinality(queued) + Cardinality(failed) = Len(rows)
  BY <1>5, <1>6, <1>7, <1>8
<1> QED BY <1>4, <1>5, <1>9 DEF queued, failed

\* A canonical URL is a URL, and a playlist's is one of the known forms.
LEMMA TokenTyped ==
    ASSUME NEW k \in ValidLines
    PROVE  Token(k) \in Urls /\ (IsPlaylistLine(k) => Token(k) \in {PlaylistUrl(l) : l \in ListIds})
<1>1. \A id \in VideoIds : WatchUrl(id) \in Urls /\ DriveUrl(id) \in Urls /\ PostUrl(id) \in Urls
  BY DEF WatchUrl, DriveUrl, PostUrl, NoUrl, Urls, Hosts, YouTubeHosts, DriveHosts, TwitterHosts, Paths
<1>2. \A l \in ListIds : PlaylistUrl(l) \in Urls
  BY DEF PlaylistUrl, NoUrl, Urls, Hosts, YouTubeHosts, DriveHosts, TwitterHosts, Paths
<1>3. \A x : Valid(x).url = x
  BY VerdictParts
<1>4. Routed(lines[k]).error = "" /\ Token(k) = Routed(lines[k]).url
  BY DEF ValidLines, Token
<1>5. CASE \E id \in VideoIds : Kind(lines[k]) # "playlist" /\ Routed(lines[k])
                                    \in {Valid(WatchUrl(id)), Valid(DriveUrl(id)), Valid(PostUrl(id))}
  BY <1>1, <1>3, <1>4, <1>5 DEF IsPlaylistLine
<1>6. CASE \E l \in ListIds : Routed(lines[k]) = Valid(PlaylistUrl(l))
  BY <1>2, <1>3, <1>4, <1>6
<1> QED BY <1>4, <1>5, <1>6, StoredAs

LEMMA WatchUrlsTyped ==
    ASSUME NEW list \in BoundedSeq(VideoIds, MaxBatch)
    PROVE  WatchUrls(list) \in Seq(Urls) /\ list \in Seq(VideoIds)
<1>1. \A id \in VideoIds : WatchUrl(id) \in Urls
  BY DEF WatchUrl, NoUrl, Urls, Hosts, YouTubeHosts, Paths
<1>2. PICK m \in 0..MaxBatch : list \in [1..m -> VideoIds]
  BY DEF BoundedSeq, SeqOf
<1>3. list \in Seq(VideoIds) /\ Len(list) = m
  BY <1>2, IntakeAssumption DEF IntakeAssumption
<1> QED BY <1>1, <1>2, <1>3 DEF WatchUrls

-----------------------------------------------------------------------------
(* The actions of a submission. *)

Outcomes == {"", "error", "accepted"} \cup Rejections

PlaylistsTyped ==
    /\ DOMAIN expanded \subseteq {PlaylistUrl(l) : l \in ListIds}
    /\ \A p \in DOMAIN expanded :
          expanded[p].videos \in BoundedSeq(VideoIds, MaxBatch) /\ expanded[p].unavailable \in 0..MaxBatch

RequestTyped ==
    /\ lines \in Seq(Urls) /\ urls \in Seq(Urls) /\ jobs \in Seq(Rows) /\ PlaylistsTyped
    /\ intake \in [pc : {"lines", "expand", "insert", "enqueue", "answered"}, left : SUBSET Nat,
                   outcome : Outcomes, submitted : 0..MaxBatch, failed : 0..MaxBatch, deduped : Nat]

LEMMA TypedIsTypeOK == IntakeTypeOK /\ urls \in Seq(Urls) /\ jobs \in Seq(Rows) <=> RequestTyped
<1>1. ASSUME urls \in Seq(Urls), jobs \in Seq(Rows)
      PROVE  Range(urls) \subseteq Urls
             /\ \A k \in 1..Len(jobs) : jobs[k].url \in Urls /\ jobs[k].status \in {"queued", "failed"}
  <2>1. \A k \in 1..Len(jobs) : jobs[k] \in Rows
    BY <1>1, ElementOfSeq
  <2>2. Range(urls) \subseteq Urls
    BY <1>1, RangeOfSeq
  <2> QED BY <2>1, <2>2 DEF Rows
<1> QED BY <1>1 DEF RequestTyped, IntakeTypeOK, PlaylistsTyped, Outcomes

\* A rejection leaves no job.
LEMMA RejectionKeeps ==
    ASSUME IntakeInv, IntakeAt("lines") \/ IntakeAt("expand"),
           NEW outcome \in Rejections, AnswerRequest(outcome),
           lines' = lines, jobs' = jobs, urls' \in Seq(Urls), PlaylistsTyped'
    PROVE  IntakeInv'
<1>1. RequestTyped /\ jobs = <<>>
  BY TypedIsTypeOK DEF IntakeInv, NothingSaved
<1>2. /\ intake' = [intake EXCEPT !.pc = "answered", !.outcome = outcome]
      /\ intake'.pc = "answered" /\ intake'.outcome = outcome
  BY <1>1 DEF AnswerRequest, RequestTyped
<1>3. RequestTyped'
  BY <1>1, <1>2 DEF RequestTyped, Outcomes
<1>4. outcome \notin {"", "error", "accepted"}
  BY DEF Rejections
<1>5. (IntakeTypeOK /\ urls \in Seq(Urls) /\ jobs \in Seq(Rows))'
  BY <1>3, TypedIsTypeOK, PTL
<1> QED BY <1>1, <1>2, <1>4, <1>5 DEF IntakeInv, IntakeAt, Admitted

\* What a line has contributed stays what it was.
LEMMA FoundStays ==
    ASSUME lines' = lines, DOMAIN expanded \subseteq DOMAIN expanded',
           \A p \in DOMAIN expanded : expanded'[p] = expanded[p],
           NEW j, IsPlaylistLine(j) => Token(j) \in DOMAIN expanded
    PROVE  /\ Found(j)' = Found(j)
           /\ (IsPlaylistLine(j) => Token(j) \in DOMAIN expanded)'
BY DEF Found, IsPlaylistLine, Token

LEMMA ReadLinesKeeps ==
    ASSUME IntakeInv, ReadLines
    PROVE  IntakeInv'
<1>1. RequestTyped /\ IntakeAt("lines")
  BY TypedIsTypeOK DEF IntakeInv, ReadLines
<1>2. CASE \E outcome \in Rejections : AnswerRequest(outcome)
  <2>1. PlaylistsTyped'
    BY <1>1 DEF ReadLines, PlaylistsTyped, RequestTyped
  <2> QED BY <1>1, <1>2, <2>1, RejectionKeeps DEF ReadLines, RequestTyped
<1>3. CASE ValidLines # {} /\ intake' = [intake EXCEPT !.pc = "expand", !.left = ValidLines]
  <2>1. intake'.pc = "expand" /\ intake'.left = ValidLines /\ intake'.outcome = intake.outcome
    BY <1>1, <1>3 DEF RequestTyped
  <2>2. ValidLines' = ValidLines /\ ValidLines \in SUBSET Nat
    <3>1. lines' = lines /\ Len(lines) \in Nat
      BY <1>1, LenProperties DEF ReadLines, RequestTyped
    <3>2. ValidLines' = ValidLines
      BY <3>1 DEF ValidLines
    <3>3. ValidLines \subseteq 1..Len(lines)
      BY DEF ValidLines
    <3> QED BY <3>1, <3>2, <3>3
  <2>3. RequestTyped'
    BY <1>1, <1>3, <2>2 DEF RequestTyped, ReadLines, PlaylistsTyped
  <2>4. Read' = {} /\ DOMAIN Finds' = {}
    BY <2>1, <2>2 DEF Read, Finds, IntakeAt
  <2>5. urls' = <<>>
    BY <1>1 DEF IntakeInv, ReadLines
  <2>6. Gathered(Finds', urls')
    <3>1. Range(urls') = {} /\ Len(urls') = 0
      BY <2>5 DEF Range
    <3>2. Parts(Finds') = {} /\ UNION {Range(Finds'[k]) : k \in DOMAIN Finds'} = {}
      BY <2>4 DEF Parts
    <3> QED BY <3>1, <3>2, FS_EmptySet DEF Gathered
  <2>7. NothingSaved'
    BY <1>1, <1>3 DEF IntakeInv, ReadLines, NothingSaved, RequestTyped
  <2>8. (IntakeTypeOK /\ urls \in Seq(Urls) /\ jobs \in Seq(Rows))'
    BY <2>3, TypedIsTypeOK, PTL
  <2>9. intake.outcome = ""
    BY <1>1 DEF IntakeInv, IntakeAt
  <2> QED BY <2>1, <2>2, <2>4, <2>6, <2>7, <2>8, <2>9 DEF IntakeInv, IntakeAt, Admitted, Rejections
<1>4. {"no_url", "too_many_urls", "unsupported_playlist", "all_invalid"} \subseteq Rejections
  BY DEF Rejections
<1> QED BY <1>2, <1>3, <1>4 DEF ReadLines

\* What the loop has after one more line: every action that takes a line ends like this.
LEMMA TakeTokenGathers ==
    ASSUME IntakeInv, IntakeAt("expand"), NEW k, TakesNext(k), NEW found \in Seq(Urls),
           TakeToken(k, found), lines' = lines, Found(k)' = found,
           DOMAIN expanded \subseteq DOMAIN expanded', \A p \in DOMAIN expanded : expanded'[p] = expanded[p],
           Read' = Read \cup {k}
    PROVE  Gathered(Finds', urls') /\ urls' \in Seq(Urls)
<1>1. RequestTyped /\ Gathered(Finds, urls) /\ k \notin Read
  BY TypedIsTypeOK DEF IntakeInv, Read, TakesNext
<1>2. urls' = urls \o found
  BY DEF TakeToken
<1>3. DOMAIN Finds = Read /\ DOMAIN Finds' = Read \cup {k}
  BY DEF Finds
<1>4. Finds'[k] = found
  BY <1>3 DEF Finds
<1>5. ASSUME NEW j \in Read
      PROVE  Finds'[j] = Finds[j]
  <2>1. IsPlaylistLine(j) => Token(j) \in DOMAIN expanded
    BY DEF IntakeInv
  <2>2. Found(j)' = Found(j)
    BY <2>1, FoundStays
  <2> QED BY <2>2 DEF Finds
<1>6. urls \in Seq(Urls)
  BY <1>1 DEF RequestTyped
<1>7. Gathered(Finds', urls \o found)
  BY <1>1, <1>3, <1>4, <1>5, <1>6, GatheredGrow
<1> QED BY <1>2, <1>6, <1>7, ConcatProperties

LEMMA TakeTokenKeeps ==
    ASSUME IntakeInv, IntakeAt("expand"), NEW k, TakesNext(k), NEW found \in Seq(Urls),
           TakeToken(k, found), lines' = lines, jobs' = jobs, PlaylistsTyped',
           (IsPlaylistLine(k) => Token(k) \in DOMAIN expanded)', Found(k)' = found,
           DOMAIN expanded \subseteq DOMAIN expanded', \A p \in DOMAIN expanded : expanded'[p] = expanded[p]
    PROVE  IntakeInv'
<1>1. /\ RequestTyped /\ intake.left \subseteq ValidLines /\ k \in intake.left /\ NothingSaved
      /\ Read = ValidLines \ intake.left
  BY TypedIsTypeOK DEF IntakeInv, TakesNext, Read
<1>2. ValidLines' = ValidLines /\ intake.outcome = "" /\ intake.pc = "expand" /\ urls' = urls \o found
  BY DEF ValidLines, IntakeInv, IntakeAt, TakeToken
<1>3. urls' \in Seq(Urls)
  BY <1>1, <1>2, ConcatProperties DEF RequestTyped
<1>4. CASE intake' = [intake EXCEPT !.left = @ \ {k}] /\ intake.left # {k}
  <2>1. intake'.pc = "expand" /\ intake'.left = intake.left \ {k} /\ intake'.outcome = ""
    BY <1>1, <1>2, <1>4 DEF RequestTyped
  <2>2. Read' = Read \cup {k}
    BY <1>1, <1>2, <2>1 DEF Read, IntakeAt
  <2>3. Gathered(Finds', urls')
    BY <2>2, TakeTokenGathers
  <2>4. RequestTyped' /\ NothingSaved'
    BY <1>1, <1>3, <1>4 DEF RequestTyped, NothingSaved
  <2>5. (IntakeTypeOK /\ urls \in Seq(Urls) /\ jobs \in Seq(Rows))'
    BY <2>4, TypedIsTypeOK, PTL
  <2>6. \A j \in Read' : (IsPlaylistLine(j) => Token(j) \in DOMAIN expanded)'
    <3>1. ASSUME NEW j \in Read
          PROVE  (IsPlaylistLine(j) => Token(j) \in DOMAIN expanded)'
      BY FoundStays DEF IntakeInv
    <3> QED BY <2>2, <3>1
  <2> QED BY <1>1, <1>2, <2>1, <2>3, <2>4, <2>5, <2>6 DEF IntakeInv, IntakeAt, Admitted, Rejections
<1>5. CASE AnswerRequest("too_many_urls")
  BY <1>3, <1>5, RejectionKeeps DEF Rejections
<1>6. CASE /\ intake.left = {k} /\ Len(urls') <= MaxBatch
           /\ intake' = [intake EXCEPT !.pc = "insert", !.left = Unique(urls'),
                                       !.deduped = Len(urls') - Cardinality(Unique(urls'))]
  <2>1. /\ intake'.pc = "insert" /\ intake'.left = Unique(urls') /\ intake'.outcome = ""
        /\ intake'.deduped = Len(urls') - Cardinality(Unique(urls'))
        /\ intake'.submitted = 0 /\ intake'.failed = 0
    BY <1>1, <1>2, <1>6 DEF RequestTyped, NothingSaved
  <2>2. Read' = Read \cup {k}
    BY <1>1, <1>2, <1>6, <2>1 DEF Read, IntakeAt
  <2>3. Gathered(Finds', urls')
    BY <2>2, TakeTokenGathers
  <2>4. /\ Unique(urls') \in SUBSET Nat
        /\ Len(urls') - Cardinality(Unique(urls')) \in Nat
    BY <1>3, FirstPlaces, LenProperties
  <2>5. RequestTyped'
    BY <1>1, <1>3, <1>6, <2>4 DEF RequestTyped
  <2>6. (IntakeTypeOK /\ urls \in Seq(Urls) /\ jobs \in Seq(Rows))'
    BY <2>5, TypedIsTypeOK, PTL
  <2>7. Done' = {} /\ jobs' = <<>>
    BY <1>1, <2>1 DEF Done, NothingSaved
  <2>8. Saved'
    <3>1. Len(jobs') = 0 /\ Inserted' = {} /\ \A s : WithStatus(jobs', s) = {}
      BY <2>7 DEF Inserted, WithStatus
    <3>2. {urls'[j] : j \in Done'} = {} /\ Cardinality(Done') = 0 /\ Cardinality({}) = 0
      BY <2>7, FS_EmptySet
    <3>3. Cardinality(WithStatus(jobs', "failed")) = 0 /\ Cardinality(WithStatus(jobs', "queued")) = 0
      BY <3>1, <3>2
    <3>4. Inserted' = {urls'[j] : j \in Done'} /\ Len(jobs') = Cardinality(Done')
      BY <3>1, <3>2
    <3>5. intake'.failed = Cardinality(WithStatus(jobs', "failed"))
          /\ intake'.submitted = Cardinality(WithStatus(jobs', "queued"))
      BY <2>1, <3>3
    <3> QED BY <2>1, <3>4, <3>5 DEF Saved, IntakeAt
  <2> QED BY <1>6, <2>1, <2>3, <2>6, <2>7, <2>8 DEF IntakeInv, IntakeAt, Admitted, Rejections
<1>7. Len(urls') \in Nat /\ MaxBatch \in Nat
  BY <1>3, LenProperties, IntakeAssumption DEF IntakeAssumption
<1> QED BY <1>4, <1>5, <1>6, <1>7 DEF TakeToken

LEMMA TakeUrlKeeps ==
    ASSUME IntakeInv, NEW k, TakeUrl(k)
    PROVE  IntakeInv'
<1>1. RequestTyped /\ k \in ValidLines /\ lines' = lines /\ expanded' = expanded /\ jobs' = jobs
  BY TypedIsTypeOK DEF IntakeInv, TakeUrl, TakesNext
<1>2. Token(k) \in Urls
  BY <1>1, TokenTyped
<1>3. <<Token(k)>> \in Seq(Urls)
  BY <1>2
<1>4. Found(k)' = <<Token(k)>> /\ (IsPlaylistLine(k) => Token(k) \in DOMAIN expanded)'
  BY <1>1 DEF Found, Token, IsPlaylistLine, TakeUrl
<1>5. PlaylistsTyped'
  BY <1>1 DEF PlaylistsTyped, RequestTyped
<1> QED BY <1>1, <1>3, <1>4, <1>5, TakeTokenKeeps DEF TakeUrl

LEMMA TakeKnownPlaylistKeeps ==
    ASSUME IntakeInv, NEW k, TakeKnownPlaylist(k)
    PROVE  IntakeInv'
<1> DEFINE found == WatchUrls(expanded[Token(k)].videos)
<1>1. RequestTyped /\ k \in ValidLines /\ lines' = lines /\ expanded' = expanded /\ jobs' = jobs
  BY TypedIsTypeOK DEF IntakeInv, TakeKnownPlaylist, TakesNext
<1>2. expanded[Token(k)].videos \in BoundedSeq(VideoIds, MaxBatch)
  BY <1>1 DEF RequestTyped, PlaylistsTyped, TakeKnownPlaylist
<1>3. found \in Seq(Urls)
  BY <1>2, WatchUrlsTyped
<1>4. Found(k)' = found /\ (IsPlaylistLine(k) => Token(k) \in DOMAIN expanded)'
  BY <1>1 DEF Found, Token, IsPlaylistLine, TakeKnownPlaylist
<1>5. PlaylistsTyped'
  BY <1>1 DEF PlaylistsTyped, RequestTyped
<1> HIDE DEF found
<1>6. IntakeAt("expand") /\ TakesNext(k) /\ TakeToken(k, found)
  BY DEF TakeKnownPlaylist, found
<1> QED BY <1>1, <1>3, <1>4, <1>5, <1>6, TakeTokenKeeps

LEMMA FetchPlaylistKeeps ==
    ASSUME IntakeInv, NEW k, NEW list \in BoundedSeq(VideoIds, MaxBatch + 1), NEW hidden \in 0..MaxBatch + 1,
           FetchPlaylist(k, list, hidden)
    PROVE  IntakeInv'
<1> DEFINE found == WatchUrls(list)
<1>1. RequestTyped /\ k \in ValidLines /\ lines' = lines /\ jobs' = jobs /\ MustFetch(k)
  BY TypedIsTypeOK DEF IntakeInv, FetchPlaylist, MustFetch, TakesNext
<1>2. MaxBatch \in Nat
  BY IntakeAssumption DEF IntakeAssumption
<1>3. CASE PlaylistAnswer(list, hidden) # ""
  <2>1. PlaylistAnswer(list, hidden) \in Rejections
    BY <1>3 DEF PlaylistAnswer, Rejections
  <2>2. PlaylistsTyped' /\ urls' \in Seq(Urls)
    BY <1>1, <1>3 DEF FetchPlaylist, PlaylistsTyped, RequestTyped
  <2> QED BY <1>1, <1>3, <2>1, <2>2, RejectionKeeps DEF FetchPlaylist, MustFetch
<1>4. CASE PlaylistAnswer(list, hidden) = ""
  <2>1. PICK m \in 0..MaxBatch + 1 : list \in [1..m -> VideoIds]
    BY DEF BoundedSeq, SeqOf
  <2>2. Len(list) = m /\ m + hidden <= MaxBatch
    BY <1>2, <1>4, <2>1 DEF PlaylistAnswer
  <2>3. list \in BoundedSeq(VideoIds, MaxBatch) /\ hidden \in 0..MaxBatch
    BY <1>2, <2>1, <2>2 DEF BoundedSeq, SeqOf
  <2>4. found \in Seq(Urls)
    BY <2>3, WatchUrlsTyped
  <2>5. Token(k) \in {PlaylistUrl(l) : l \in ListIds} /\ Token(k) \notin DOMAIN expanded
    BY <1>1, TokenTyped DEF MustFetch
  <2>6. /\ DOMAIN expanded' = DOMAIN expanded \cup {Token(k)}
        /\ expanded'[Token(k)] = [videos |-> list, unavailable |-> hidden]
        /\ \A p \in DOMAIN expanded : expanded'[p] = expanded[p]
        /\ TakeToken(k, found)
    BY <1>4, <2>5 DEF FetchPlaylist
  <2>7. PlaylistsTyped'
    BY <1>1, <2>3, <2>5, <2>6 DEF PlaylistsTyped, RequestTyped
  <2>8. Found(k)' = found /\ (IsPlaylistLine(k) => Token(k) \in DOMAIN expanded)'
    BY <1>1, <2>6 DEF Found, Token, IsPlaylistLine, MustFetch
  <2> HIDE DEF found
  <2> QED BY <1>1, <2>4, <2>6, <2>7, <2>8, TakeTokenKeeps DEF MustFetch
<1> QED BY <1>3, <1>4

LEMMA FetchPlaylistFailsKeeps ==
    ASSUME IntakeInv, NEW k,
           NEW error \in {"playlist_unavailable", "playlist_fetch_failed", "playlist_empty"},
           FetchPlaylistFails(k, error)
    PROVE  IntakeInv'
<1>1. RequestTyped /\ error \in Rejections
  BY TypedIsTypeOK DEF IntakeInv, Rejections
<1>2. PlaylistsTyped'
  BY <1>1 DEF FetchPlaylistFails, PlaylistsTyped, RequestTyped
<1> QED BY <1>1, <1>2, RejectionKeeps DEF FetchPlaylistFails, MustFetch, RequestTyped

-----------------------------------------------------------------------------
(* The second loop: one row for every first place. *)

InRecord == [pc : {"lines", "expand", "insert", "enqueue", "answered"}, left : SUBSET Nat,
             outcome : Outcomes, submitted : Nat, failed : Nat, deduped : Nat]

\* No counter passes the limit of a batch.
LEMMA SavedIsTyped ==
    ASSUME lines \in Seq(Urls), urls \in Seq(Urls), jobs \in Seq(Rows), PlaylistsTyped,
           intake \in InRecord, Saved, Len(urls) <= MaxBatch
    PROVE  IntakeTypeOK /\ Len(jobs) <= MaxBatch
<1>1. /\ IsFiniteSet(Unique(urls)) /\ Cardinality(Unique(urls)) \in Nat
      /\ Cardinality(Unique(urls)) <= Len(urls) /\ Len(urls) \in Nat
  BY FirstPlaces, LenProperties
<1>2. IsFiniteSet(Done) /\ Cardinality(Done) <= Cardinality(Unique(urls))
  BY <1>1, FS_Subset DEF Done
<1>3. Cardinality(Done) \in Nat /\ MaxBatch \in Nat
  BY <1>2, FS_CardinalityType, IntakeAssumption DEF IntakeAssumption
<1>4. Len(jobs) <= MaxBatch
  BY <1>1, <1>2, <1>3 DEF Saved
<1>5. /\ Cardinality(WithStatus(jobs, "queued")) + Cardinality(WithStatus(jobs, "failed")) = Len(jobs)
      /\ Cardinality(WithStatus(jobs, "queued")) \in Nat /\ Cardinality(WithStatus(jobs, "failed")) \in Nat
  BY StatusCounts
<1>6. /\ intake.failed = Cardinality(WithStatus(jobs, "failed"))
      /\ \/ intake.submitted + 1 = Cardinality(WithStatus(jobs, "queued"))
         \/ intake.submitted = Cardinality(WithStatus(jobs, "queued"))
  BY DEF Saved
<1>7. intake.submitted \in Nat /\ intake.failed \in Nat
  BY DEF InRecord
<1>8. intake.submitted \in 0..MaxBatch /\ intake.failed \in 0..MaxBatch
  BY <1>3, <1>4, <1>5, <1>6, <1>7
<1>9. RequestTyped
  BY <1>8 DEF RequestTyped, InRecord
<1> QED BY <1>4, <1>9, TypedIsTypeOK

\* What an action of the second loop, which leaves lines, playlists and URLs alone, must show.
LEMMA LoopKeeps ==
    ASSUME IntakeInv, Admitted, UNCHANGED <<lines, expanded, urls>>,
           jobs' \in Seq(Rows), intake' \in InRecord, Admitted', ~IntakeAt("expand"), ~IntakeAt("expand")',
           Saved', intake'.left \subseteq intake.left, intake'.deduped = intake.deduped,
           (intake.outcome = "" <=> ~IntakeAt("answered"))',
           (IntakeAt("enqueue") => jobs # <<>> /\ jobs[Len(jobs)].status = "queued")',
           (intake.outcome = "accepted" => intake.left = {})'
    PROVE  IntakeInv'
<1>1. RequestTyped /\ Gathered(Finds, urls) /\ Len(urls) <= MaxBatch /\ intake.left \subseteq Unique(urls)
      /\ intake.deduped = Len(urls) - Cardinality(Unique(urls))
  BY TypedIsTypeOK DEF IntakeInv
<1>2. lines' \in Seq(Urls) /\ urls' \in Seq(Urls) /\ PlaylistsTyped'
  BY <1>1 DEF RequestTyped, PlaylistsTyped
<1>3. (/\ lines \in Seq(Urls) /\ urls \in Seq(Urls) /\ jobs \in Seq(Rows) /\ PlaylistsTyped
       /\ intake \in InRecord /\ Saved /\ Len(urls) <= MaxBatch)'
  BY <1>1, <1>2 DEF InRecord, Outcomes
<1>4. IntakeTypeOK'
  BY <1>3, SavedIsTyped, PTL
<1>5. Finds' = Finds
  BY DEF Finds, Read, ValidLines, Found, Token, IsPlaylistLine
<1>6. ~IntakeAt("lines")' /\ intake'.outcome \notin Rejections
  BY DEF Admitted, IntakeAt, Rejections
<1> QED BY <1>1, <1>2, <1>4, <1>5, <1>6 DEF IntakeInv

LEMMA CountersTyped ==
    ASSUME RequestTyped
    PROVE  intake \in InRecord
<1>1. MaxBatch \in Nat
  BY IntakeAssumption DEF IntakeAssumption
<1>2. 0..MaxBatch \subseteq Nat
  BY <1>1
<1> QED BY <1>2 DEF RequestTyped, InRecord

LEMMA InsertJobKeeps ==
    ASSUME IntakeInv, NEW k, InsertJob(k)
    PROVE  IntakeInv'
<1> DEFINE row == [url |-> urls[k], status |-> "queued"]
           n == Len(jobs) + 1
<1>1. /\ RequestTyped /\ Admitted /\ Saved /\ intake.pc = "insert" /\ intake.outcome = ""
      /\ k \in intake.left /\ intake.left \subseteq Unique(urls)
  BY TypedIsTypeOK DEF IntakeInv, InsertJob, TakesNext, IntakeAt, Admitted
<1>2. /\ intake'.pc = "enqueue" /\ intake'.left = intake.left \ {k} /\ intake'.outcome = ""
      /\ intake'.deduped = intake.deduped /\ intake'.submitted = intake.submitted
      /\ intake'.failed = intake.failed /\ intake' \in InRecord
  BY <1>1, CountersTyped DEF InsertJob, InRecord
<1>3. jobs \in Seq(Rows) /\ row \in Rows /\ jobs' = Append(jobs, row) /\ UNCHANGED <<lines, expanded, urls>>
  <2>1. urls \in Seq(Urls) /\ k \in 1..Len(urls)
    BY <1>1, FirstPlaces DEF RequestTyped
  <2>2. urls[k] \in Urls
    BY <2>1, ElementOfSeq
  <2> QED BY <1>1, <2>2 DEF Rows, InsertJob, RequestTyped
<1> HIDE DEF row
<1>4. /\ jobs' \in Seq(Rows) /\ Len(jobs') = n /\ jobs' # <<>> /\ Len(jobs) \in Nat
      /\ jobs'[n] = row /\ \A j \in 1..Len(jobs) : jobs'[j] = jobs[j]
  BY <1>3, AppendProperties, LenProperties
<1>5. row.url = urls[k] /\ row.status = "queued"
  BY DEF row
<1>6. Done' = Done \cup {k} /\ k \notin Done
  BY <1>1, <1>2, <1>3 DEF Done
<1>7. IsFiniteSet(Done) /\ Cardinality(Done) \in Nat /\ Cardinality(Done') = Cardinality(Done) + 1
  <2>1. IsFiniteSet(Unique(urls))
    BY <1>1, FirstPlaces DEF RequestTyped
  <2>2. IsFiniteSet(Done)
    BY <2>1, FS_Subset DEF Done
  <2>3. Cardinality(Done \cup {k}) = Cardinality(Done) + 1
    BY <1>6, <2>2, FS_AddElement
  <2> QED BY <1>6, <2>2, <2>3, FS_CardinalityType
<1>8. Inserted' = {urls'[j] : j \in Done'}
  <2>1. Inserted' = Inserted \cup {urls[k]}
    BY <1>4, <1>5 DEF Inserted
  <2> QED BY <1>1, <1>3, <1>6, <2>1 DEF Saved
<1>9. /\ Cardinality(WithStatus(jobs', "failed")) = Cardinality(WithStatus(jobs, "failed"))
      /\ Cardinality(WithStatus(jobs', "queued")) = Cardinality(WithStatus(jobs, "queued")) + 1
  <2>1. WithStatus(jobs', "failed") = WithStatus(jobs, "failed")
    BY <1>4, <1>5 DEF WithStatus
  <2>2. WithStatus(jobs', "queued") = WithStatus(jobs, "queued") \cup {n} /\ n \notin WithStatus(jobs, "queued")
    BY <1>4, <1>5 DEF WithStatus
  <2>3. IsFiniteSet(WithStatus(jobs, "queued"))
    BY <1>3, StatusCounts
  <2> QED BY <2>1, <2>2, <2>3, FS_AddElement
<1>10. Saved'
  <2>1. intake'.failed = Cardinality(WithStatus(jobs', "failed"))
    BY <1>1, <1>2, <1>9 DEF Saved
  <2>2. intake.submitted = Cardinality(WithStatus(jobs, "queued"))
    BY <1>1 DEF Saved, IntakeAt
  <2>3. intake'.submitted + 1 = Cardinality(WithStatus(jobs', "queued"))
    BY <1>2, <1>9, <2>2
  <2>4. Len(jobs') = Cardinality(Done')
    BY <1>1, <1>4, <1>7 DEF Saved
  <2> QED BY <1>2, <1>8, <2>1, <2>3, <2>4 DEF Saved, IntakeAt
<1> QED BY <1>1, <1>2, <1>3, <1>4, <1>5, <1>10, LoopKeeps DEF Admitted, IntakeAt

\* What both ends of an enqueue start from.
LEMMA AtEnqueue ==
    ASSUME IntakeInv, IntakeAt("enqueue")
    PROVE  /\ RequestTyped /\ Admitted /\ Saved /\ intake.outcome = "" /\ intake.pc = "enqueue"
           /\ intake \in InRecord /\ jobs \in Seq(Rows)
           /\ intake.failed = Cardinality(WithStatus(jobs, "failed"))
           /\ intake.submitted + 1 = Cardinality(WithStatus(jobs, "queued"))
           /\ Len(jobs) \in 1..Len(jobs) /\ jobs[Len(jobs)].status = "queued"
<1>1. RequestTyped /\ Admitted /\ Saved /\ intake.outcome = "" /\ intake.pc = "enqueue" /\ jobs # <<>>
  BY TypedIsTypeOK DEF IntakeInv, IntakeAt, Admitted
<1>2. Len(jobs) \in Nat \ {0}
  BY <1>1, EmptySeq DEF RequestTyped
<1>3. intake \in InRecord
  BY <1>1, CountersTyped
<1>4. intake.submitted + 1 = Cardinality(WithStatus(jobs, "queued"))
  BY <1>1 DEF Saved, IntakeAt
<1>5. intake.failed = Cardinality(WithStatus(jobs, "failed"))
  BY <1>1 DEF Saved
<1>6. Len(jobs) \in 1..Len(jobs)
  BY <1>2
<1>7. jobs \in Seq(Rows) /\ jobs[Len(jobs)].status = "queued"
  BY DEF IntakeInv
<1> QED BY <1>1, <1>3, <1>4, <1>5, <1>6, <1>7

LEMMA EnqueueJobKeeps ==
    ASSUME IntakeInv, EnqueueJob
    PROVE  IntakeInv'
<1>1. IntakeAt("enqueue")
  BY DEF EnqueueJob
<1>2. /\ intake'.pc = "insert" /\ intake'.left = intake.left /\ intake'.outcome = ""
      /\ intake'.deduped = intake.deduped /\ intake'.submitted = intake.submitted + 1
      /\ intake'.failed = intake.failed /\ intake' \in InRecord
      /\ jobs' = jobs /\ UNCHANGED <<lines, expanded, urls>>
  <2>1. intake \in InRecord /\ intake.outcome = ""
    BY <1>1, AtEnqueue
  <2>2. intake.submitted + 1 \in Nat
    <3>1. intake.submitted \in Nat
      BY <2>1 DEF InRecord
    <3> QED BY <3>1
  <2>3. intake' = [intake EXCEPT !.pc = "insert", !.submitted = intake.submitted + 1]
    BY DEF EnqueueJob
  <2>4. jobs' = jobs /\ UNCHANGED <<lines, expanded, urls>>
    BY DEF EnqueueJob
  <2> QED BY <2>1, <2>2, <2>3, <2>4 DEF InRecord
<1>3. Inserted' = {urls'[j] : j \in Done'} /\ Len(jobs') = Cardinality(Done')
  BY <1>1, <1>2, AtEnqueue DEF Saved, Inserted, Done
<1>4. Saved'
  <2>1. intake.submitted \in Nat
    BY <1>1, AtEnqueue DEF InRecord
  <2>2. intake'.submitted = Cardinality(WithStatus(jobs', "queued"))
    BY <1>1, <1>2, <2>1, AtEnqueue
  <2>3. intake'.failed = Cardinality(WithStatus(jobs', "failed"))
    BY <1>1, <1>2, AtEnqueue
  <2> QED BY <1>2, <1>3, <2>2, <2>3 DEF Saved, IntakeAt
<1> QED BY <1>1, <1>2, <1>4, AtEnqueue, LoopKeeps DEF Admitted, IntakeAt

LEMMA EnqueueJobFailsKeeps ==
    ASSUME IntakeInv, EnqueueJobFails
    PROVE  IntakeInv'
<1> DEFINE n == Len(jobs)
           queued == WithStatus(jobs, "queued")
           failed == WithStatus(jobs, "failed")
<1>1. IntakeAt("enqueue")
  BY DEF EnqueueJobFails
<1>2. /\ intake'.pc = "insert" /\ intake'.left = intake.left /\ intake'.outcome = ""
      /\ intake'.deduped = intake.deduped /\ intake'.submitted = intake.submitted
      /\ intake'.failed = intake.failed + 1 /\ intake' \in InRecord
      /\ UNCHANGED <<lines, expanded, urls>>
  <2>1. intake \in InRecord /\ intake.outcome = ""
    BY <1>1, AtEnqueue
  <2>2. intake.failed + 1 \in Nat
    <3>1. intake.failed \in Nat
      BY <2>1 DEF InRecord
    <3> QED BY <3>1
  <2>3. intake' = [intake EXCEPT !.pc = "insert", !.failed = intake.failed + 1]
    BY DEF EnqueueJobFails
  <2>4. UNCHANGED <<lines, expanded, urls>>
    BY DEF EnqueueJobFails
  <2> QED BY <2>1, <2>2, <2>3, <2>4 DEF InRecord
<1>3. n \in 1..n /\ jobs \in Seq(Rows) /\ jobs[n].status = "queued" /\ jobs[n] \in Rows
  BY <1>1, AtEnqueue, ElementOfSeq
<1>4. /\ jobs' \in Seq(Rows) /\ Len(jobs') = n
      /\ jobs'[n].url = jobs[n].url /\ jobs'[n].status = "failed"
      /\ \A j \in 1..n : j # n => jobs'[j] = jobs[j]
  <2> DEFINE row == [jobs[n] EXCEPT !.status = "failed"]
  <2>1. row \in Rows /\ row.url = jobs[n].url /\ row.status = "failed"
    BY <1>3 DEF Rows
  <2>2. jobs' = [jobs EXCEPT ![n] = row]
    BY DEF EnqueueJobFails
  <2> HIDE DEF row
  <2> QED BY <1>3, <2>1, <2>2, ExceptSeq
<1>5. Inserted' = {urls'[j] : j \in Done'} /\ Len(jobs') = Cardinality(Done')
  <2>1. Inserted' = Inserted
    BY <1>3, <1>4 DEF Inserted
  <2> QED BY <1>1, <1>2, <1>4, <2>1, AtEnqueue DEF Saved, Done
<1>6. /\ Cardinality(WithStatus(jobs', "failed")) = Cardinality(failed) + 1
      /\ Cardinality(WithStatus(jobs', "queued")) = Cardinality(queued) - 1
  <2>1. WithStatus(jobs', "failed") = failed \cup {n} /\ n \notin failed
    BY <1>3, <1>4 DEF WithStatus
  <2>2. WithStatus(jobs', "queued") = queued \ {n} /\ n \in queued
    BY <1>3, <1>4 DEF WithStatus
  <2>3. IsFiniteSet(queued) /\ IsFiniteSet(failed)
    BY <1>3, StatusCounts
  <2> HIDE DEF queued, failed, n
  <2>4. Cardinality(failed \cup {n}) = Cardinality(failed) + 1
    BY <2>1, <2>3, FS_AddElement
  <2>5. Cardinality(queued \ {n}) = Cardinality(queued) - 1
    BY <2>2, <2>3, FS_RemoveElement
  <2> QED BY <2>1, <2>2, <2>4, <2>5
<1>7. Saved'
  <2>1. intake.submitted \in Nat /\ intake.submitted + 1 = Cardinality(queued)
    BY <1>1, AtEnqueue DEF InRecord
  <2>2. intake'.submitted = Cardinality(WithStatus(jobs', "queued"))
    <3>1. Cardinality(queued) \in Nat
      BY <1>3, StatusCounts
    <3>2. Cardinality(WithStatus(jobs', "queued")) = intake.submitted
      BY <1>6, <2>1, <3>1
    <3> QED BY <1>2, <3>2
  <2>3. intake'.failed = Cardinality(WithStatus(jobs', "failed"))
    BY <1>1, <1>2, <1>6, AtEnqueue
  <2> QED BY <1>2, <1>5, <2>2, <2>3 DEF Saved, IntakeAt
<1> QED BY <1>1, <1>2, <1>4, <1>7, AtEnqueue, LoopKeeps DEF Admitted, IntakeAt

\* The two ends of the loop that only answer.
LEMMA LoopEndsKeeps ==
    ASSUME IntakeInv, InsertRaises \/ MarkEnqueueFailedRaises \/ FinishSubmission
    PROVE  IntakeInv'
<1>1. /\ RequestTyped /\ Admitted /\ Saved /\ intake.pc \in {"insert", "enqueue"} /\ intake \in InRecord
      /\ UNCHANGED <<lines, expanded, urls, jobs>>
  BY TypedIsTypeOK, CountersTyped
     DEF IntakeInv, InsertRaises, MarkEnqueueFailedRaises, FinishSubmission, IntakeAt, Admitted
<1>2. PICK outcome \in {"error", "accepted"} :
         /\ AnswerRequest(outcome)
         /\ outcome = "accepted" => intake.left = {} /\ intake.pc = "insert"
         /\ intake.pc = "enqueue" => outcome = "error"
  BY DEF InsertRaises, MarkEnqueueFailedRaises, FinishSubmission, IntakeAt
<1>3. /\ intake'.pc = "answered" /\ intake'.left = intake.left /\ intake'.outcome = outcome
      /\ intake'.deduped = intake.deduped /\ intake'.submitted = intake.submitted
      /\ intake'.failed = intake.failed /\ intake' \in InRecord
  BY <1>1, <1>2 DEF AnswerRequest, InRecord, Outcomes
<1>4. Saved'
  <2>1. intake.pc = "insert" => intake.outcome = ""
    BY DEF IntakeInv, IntakeAt
  <2> QED BY <1>1, <1>2, <1>3, <2>1 DEF Saved, Inserted, Done, IntakeAt
<1>5. jobs' \in Seq(Rows)
  BY <1>1 DEF RequestTyped
<1> QED BY <1>1, <1>2, <1>3, <1>4, <1>5, LoopKeeps DEF Admitted, IntakeAt

LEMMA IntakeStart == IntakeInit => IntakeInv
<1> SUFFICES ASSUME IntakeInit
             PROVE  IntakeInv
  OBVIOUS
<1>1. lines \in Seq(Urls) /\ MaxBatch \in Nat
  BY IntakeAssumption DEF IntakeAssumption, IntakeInit
<1>2. PlaylistsTyped
  BY DEF IntakeInit, PlaylistsTyped, NoPlaylists
<1>3. RequestTyped
  <2>1. urls = <<>> /\ jobs = <<>>
    BY DEF IntakeInit
  <2>2. 0 \in 0..MaxBatch
    BY <1>1
  <2>3. urls \in Seq(Urls) /\ jobs \in Seq(Rows)
    BY <2>1
  <2> QED BY <1>1, <1>2, <2>2, <2>3 DEF RequestTyped, IntakeInit, Outcomes
<1>4. IntakeAt("lines") /\ intake.outcome = "" /\ NothingSaved
  BY DEF IntakeInit, IntakeAt, NothingSaved
<1> QED BY <1>3, <1>4, TypedIsTypeOK DEF IntakeInv, IntakeInit, IntakeAt, Admitted, Rejections

LEMMA IntakeUnchanged ==
    ASSUME IntakeInv, UNCHANGED intakeVars
    PROVE  IntakeInv'
<1>1. lines' = lines /\ intake' = intake /\ expanded' = expanded /\ urls' = urls /\ jobs' = jobs
  BY DEF intakeVars
<1>2. Finds' = Finds /\ Read' = Read /\ ValidLines' = ValidLines
      /\ (\A k \in Read : IsPlaylistLine(k) => Token(k) \in DOMAIN expanded)'
         = (\A k \in Read : IsPlaylistLine(k) => Token(k) \in DOMAIN expanded)
  BY <1>1 DEF Finds, Read, ValidLines, IntakeAt, Found, Token, IsPlaylistLine
<1>3. Saved' = Saved /\ NothingSaved' = NothingSaved /\ Admitted' = Admitted /\ IntakeTypeOK' = IntakeTypeOK
  BY <1>1 DEF Saved, NothingSaved, Admitted, IntakeTypeOK, Done, Inserted, IntakeAt
<1> QED BY <1>1, <1>2, <1>3 DEF IntakeInv, IntakeAt

\* The inductive invariant of a submission: what is counted is what the loops are done with.
THEOREM IntakeCorrect == IntakeSpec => []IntakeInv
<1>1. ASSUME IntakeInv, [IntakeStep]_intakeVars
      PROVE  IntakeInv'
  <2>1. CASE ReadLines
    BY <1>1, <2>1, ReadLinesKeeps
  <2>2. ASSUME NEW k \in intake.left, TakeUrl(k) \/ TakeKnownPlaylist(k) \/ InsertJob(k)
        PROVE  IntakeInv'
    BY <1>1, <2>2, TakeUrlKeeps, TakeKnownPlaylistKeeps, InsertJobKeeps
  <2>3. ASSUME NEW k \in intake.left,
               NEW error \in {"playlist_unavailable", "playlist_fetch_failed", "playlist_empty"},
               FetchPlaylistFails(k, error)
        PROVE  IntakeInv'
    BY <1>1, <2>3, FetchPlaylistFailsKeeps
  <2>4. ASSUME NEW k \in intake.left, NEW list \in BoundedSeq(VideoIds, MaxBatch + 1),
               NEW hidden \in 0..MaxBatch + 1, FetchPlaylist(k, list, hidden)
        PROVE  IntakeInv'
    BY <1>1, <2>4, FetchPlaylistKeeps
  <2>5. CASE InsertRaises \/ MarkEnqueueFailedRaises \/ FinishSubmission
    BY <1>1, <2>5, LoopEndsKeeps
  <2>6. CASE EnqueueJob
    BY <1>1, <2>6, EnqueueJobKeeps
  <2>7. CASE EnqueueJobFails
    BY <1>1, <2>7, EnqueueJobFailsKeeps
  <2>8. CASE UNCHANGED intakeVars
    BY <1>1, <2>8, IntakeUnchanged
  <2> QED BY <1>1, <2>1, <2>2, <2>3, <2>4, <2>5, <2>6, <2>7, <2>8 DEF IntakeStep
<1> QED BY <1>1, IntakeStart, PTL DEF IntakeSpec

\* For any lines, playlists, limit and failing store or queue: an accepted batch has one job
\* for each video that its lines name, a rejected one has none, and no batch passes the limit.
THEOREM OneJobPerVideoAlways == IntakeSpec => []OneJobPerVideo
<1>1. ASSUME IntakeInv
      PROVE  OneJobPerVideo
  <2> DEFINE named == UNION {Range(Found(k)) : k \in ValidLines}
  <2>1. CASE Admitted
    <3>1. /\ RequestTyped /\ Saved /\ Gathered(Finds, urls) /\ Len(urls) <= MaxBatch /\ ~IntakeAt("expand")
          /\ intake.outcome = "accepted" => intake.left = {}
      BY <1>1, <2>1, TypedIsTypeOK DEF IntakeInv, IntakeAt, Admitted
    <3>2. /\ Unique(urls) \subseteq 1..Len(urls) /\ IsFiniteSet(Unique(urls))
          /\ \A j, k \in Unique(urls) : urls[j] = urls[k] => j = k
          /\ {urls[k] : k \in Unique(urls)} = Range(urls)
      BY <3>1, FirstPlaces DEF RequestTyped
    <3>3. Cardinality(Inserted) = Len(jobs)
      <4>1. IsFiniteSet(Done) /\ \A j, k \in Done : urls[j] = urls[k] => j = k
        BY <3>2, FS_Subset DEF Done
      <4>2. Cardinality({urls[k] : k \in Done}) = Cardinality(Done)
        BY <4>1, AsManyMembers
      <4> QED BY <3>1, <4>2 DEF Saved
    <3>4. Len(jobs) <= MaxBatch
      BY <3>1, CountersTyped, SavedIsTyped DEF RequestTyped
    <3>5. named = Range(urls)
      <4>1. DOMAIN Finds = ValidLines /\ \A k \in ValidLines : Finds[k] = Found(k)
        BY <3>1 DEF Finds, Read
      <4> QED BY <3>1, <4>1 DEF Gathered
    <3>6. Inserted \subseteq named
      BY <3>1, <3>2, <3>5 DEF Saved, Done
    <3>7. intake.outcome = "accepted" => Inserted = named
      BY <3>1, <3>2, <3>5 DEF Saved, Done
    <3>8. intake.outcome \in Rejections => jobs = <<>>
      BY <1>1 DEF IntakeInv
    <3> QED BY <3>3, <3>4, <3>6, <3>7, <3>8 DEF OneJobPerVideo
  <2>2. CASE ~Admitted
    <3>1. jobs = <<>> /\ intake.outcome # "accepted"
      BY <1>1, <2>2 DEF IntakeInv, IntakeTypeOK, IntakeAt, Admitted, NothingSaved
    <3>2. Inserted = {} /\ Len(jobs) = 0
      BY <3>1 DEF Inserted
    <3>3. Cardinality(Inserted) = 0 /\ MaxBatch \in Nat
      BY <3>2, FS_EmptySet, IntakeAssumption DEF IntakeAssumption
    <3> QED BY <3>1, <3>2, <3>3 DEF OneJobPerVideo
  <2> QED BY <2>1, <2>2
<1> QED BY <1>1, IntakeCorrect, PTL

\* The submission keeps its types: no counter passes the limit of a batch.
THEOREM IntakeTypes == IntakeSpec => []IntakeTypeOK
<1>1. IntakeInv => IntakeTypeOK
  BY DEF IntakeInv
<1> QED BY <1>1, IntakeCorrect, PTL

\* For any submission: the toast of an accepted batch accounts for each line and each playlist
\* entry once, and its counts of queued and failed jobs are those of the rows.
THEOREM ToastAlwaysAddsUp == IntakeSpec => []ToastAddsUp
<1>1. ASSUME IntakeInv
      PROVE  ToastAddsUp
  <2> DEFINE pasted == UNION {{k} \X (1..Len(Found(k))) : k \in ValidLines}
  <2> SUFFICES ASSUME intake.outcome = "accepted"
               PROVE  /\ intake.submitted + intake.failed + intake.deduped = Cardinality(pasted)
                      /\ intake.failed = Cardinality(WithStatus(jobs, "failed"))
                      /\ intake.submitted = Cardinality(WithStatus(jobs, "queued"))
    BY DEF ToastAddsUp
  <2>1. /\ RequestTyped /\ Saved /\ Gathered(Finds, urls) /\ intake.pc = "answered" /\ intake.left = {}
        /\ intake.deduped = Len(urls) - Cardinality(Unique(urls))
    BY <1>1, TypedIsTypeOK DEF IntakeInv, IntakeAt, Admitted
  <2>2. pasted = Parts(Finds)
    <3>1. DOMAIN Finds = ValidLines /\ \A k \in ValidLines : Finds[k] = Found(k)
      BY <2>1 DEF Finds, Read, IntakeAt
    <3> QED BY <3>1 DEF Parts
  <2>3. Cardinality(pasted) = Len(urls)
    BY <2>1, <2>2 DEF Gathered
  <2>4. Done = Unique(urls) /\ Len(jobs) = Cardinality(Unique(urls))
    BY <2>1 DEF Saved, Done
  <2>5. /\ intake.failed = Cardinality(WithStatus(jobs, "failed"))
        /\ intake.submitted = Cardinality(WithStatus(jobs, "queued"))
    BY <2>1 DEF Saved, IntakeAt
  <2>6. /\ Cardinality(WithStatus(jobs, "queued")) + Cardinality(WithStatus(jobs, "failed")) = Len(jobs)
        /\ Cardinality(WithStatus(jobs, "queued")) \in Nat /\ Cardinality(WithStatus(jobs, "failed")) \in Nat
    BY <2>1, StatusCounts DEF RequestTyped
  <2>7. Len(urls) \in Nat /\ Cardinality(Unique(urls)) \in Nat
    BY <2>1, FirstPlaces, LenProperties DEF RequestTyped
  <2> HIDE DEF pasted
  <2> QED BY <2>1, <2>3, <2>4, <2>5, <2>6, <2>7
<1> QED BY <1>1, IntakeCorrect, PTL

=============================================================================
