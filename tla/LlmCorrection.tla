--------------------------- MODULE LlmCorrection ----------------------------
(***************************************************************************)
(* The optional correction stage of pipeline/llm_correction.py, one run of *)
(* it as _run_single_stage drives it.  The transcript is corrected chunk   *)
(* by chunk, in place, in the worker's memory; a chunk whose request or    *)
(* reply fails keeps its text, RQ's timeout abandons the stage, and the    *)
(* transcript goes back to the context hash once, at the end.              *)
(*                                                                         *)
(* A segment's text is abstracted to where it comes from: Original, or the *)
(* number of the chunk whose reply wrote it.  Segments and chunks count    *)
(* from 0, as in the code.                                                 *)
(***************************************************************************)
EXTENDS Integers, FiniteSets

CONSTANTS
    MaxSegments,  \* bound on the length of the transcript
    ChunkSize     \* settings.llm_chunk_size

ASSUME LlmAssumption == MaxSegments \in Nat /\ ChunkSize \in Nat \ {0}

VARIABLES
    llmInput,     \* what the stage loads: segments, and what the gate looks at
    llm,          \* the stage: where it is, the chunk at hand, the chunks that failed
    text,         \* transcript.segments[k].text in the worker's memory
    storedText,   \* the same in whisper:ctx:{id}
    llmShown      \* the last message handed to on_progress

llmVars == <<llmInput, llm, text, storedText, llmShown>>

Original == -1

Segments == 0..llmInput.segments - 1

\* quality_warning set; language = "zh"; ollama_base_url set; number of segments.
LlmInputs == [warning : BOOLEAN, zh : BOOLEAN, url : BOOLEAN, segments : 0..MaxSegments]
LlmOutcomes == {"skipped", "degraded", "done"}

LlmTypeOK ==
    /\ llmInput \in LlmInputs
    /\ llm \in [pc : {"gate", "chunk", "report", "persist", "returned", "timeout"},
                i : 0..MaxSegments, failed : SUBSET (0..MaxSegments)]
    /\ text \in [Segments -> Original..MaxSegments]
    /\ storedText \in [Segments -> Original..MaxSegments]
    /\ llmShown \in {"", "running"} \cup LlmOutcomes

LlmInit ==
    /\ llmInput \in LlmInputs
    /\ llm = [pc |-> "gate", i |-> 0, failed |-> {}]
    /\ text = [k \in Segments |-> Original]
    /\ storedText = text
    /\ llmShown = ""

-----------------------------------------------------------------------------
(* _build_chunks: range(0, n, chunk_size) *)

LeastOf(a, b) == IF a < b THEN a ELSE b

ChunkCount == (llmInput.segments + ChunkSize - 1) \div ChunkSize

\* The segments edit_start..edit_end - 1 that chunk i asks the model to correct.
EditItems(i) ==
    i * ChunkSize .. LeastOf(i * ChunkSize + ChunkSize, llmInput.segments) - 1

\* Mutant: extra entries in a reply do no harm.
ReplyAccepted_Superset(returned, i) == EditItems(i) \subseteq returned

\* _parse_response: exactly the segments asked for, or the whole chunk falls back.
ReplyAccepted(returned, i) == returned = EditItems(i)

\* _apply_corrections
Corrected(returned, i) ==
    [k \in Segments |-> IF k \in returned THEN i ELSE text[k]]

-----------------------------------------------------------------------------

LlmAt(label) == llm.pc = label

\* A degenerate transcript, another language, no server, nothing to correct.
SkipTranscript ==
    /\ LlmAt("gate")
    /\ llmInput.warning \/ ~llmInput.zh \/ ~llmInput.url \/ llmInput.segments = 0
    /\ llm' = [llm EXCEPT !.pc = "persist"]
    /\ llmShown' = "skipped"
    /\ UNCHANGED <<llmInput, text, storedText>>

StartChunks ==
    /\ LlmAt("gate")
    /\ ~llmInput.warning /\ llmInput.zh /\ llmInput.url /\ llmInput.segments > 0
    /\ llm' = [llm EXCEPT !.pc = "chunk"]
    /\ UNCHANGED <<llmInput, text, storedText, llmShown>>

\* on_progress(done / total, ...) and the next round of the loop.
NextChunk(failed) ==
    /\ llm' = [pc |-> IF llm.i + 1 = ChunkCount THEN "report" ELSE "chunk",
               i |-> llm.i + 1, failed |-> failed]
    /\ llmShown' = "running"

\* The model answers with texts for some segments, perhaps others than it was asked.
ChunkAnswered(returned) ==
    /\ LlmAt("chunk")
    /\ IF ReplyAccepted(returned, llm.i)
       THEN text' = Corrected(returned, llm.i) /\ NextChunk(llm.failed)
       ELSE text' = text /\ NextChunk(llm.failed \cup {llm.i})
    /\ UNCHANGED <<llmInput, storedText>>

\* httpx raises, the answer is an HTTP error, or it is not the JSON asked for.
ChunkFails ==
    /\ LlmAt("chunk")
    /\ NextChunk(llm.failed \cup {llm.i})
    /\ UNCHANGED <<llmInput, text, storedText>>

\* RQ's death penalty strikes, perhaps when some of an accepted reply has been
\* applied: BaseTimeoutException leaves execute unhandled.
StageTimesOut(applied) ==
    /\ llm.pc \in {"gate", "chunk", "report", "persist"}
    /\ LlmAt("chunk") \/ applied = {}
    /\ llm' = [llm EXCEPT !.pc = "timeout"]
    /\ text' = Corrected(applied, llm.i)
    /\ UNCHANGED <<llmInput, storedText, llmShown>>

\* Every chunk failed, some did, or none.
ReportOutcome ==
    /\ LlmAt("report")
    /\ llm' = [llm EXCEPT !.pc = "persist"]
    /\ llmShown' = IF Cardinality(llm.failed) = ChunkCount THEN "skipped"
                   ELSE IF llm.failed # {} THEN "degraded" ELSE "done"
    /\ UNCHANGED <<llmInput, text, storedText>>

\* Mutant: a stage that timed out saves what it has.
PersistTranscript_Salvage ==
    /\ llm.pc \in {"persist", "timeout"}
    /\ llm' = [llm EXCEPT !.pc = "returned"]
    /\ storedText' = text
    /\ UNCHANGED <<llmInput, text, llmShown>>

\* _run_single_stage saves output_keys only after execute has returned.
PersistTranscript ==
    /\ LlmAt("persist")
    /\ llm' = [llm EXCEPT !.pc = "returned"]
    /\ storedText' = text
    /\ UNCHANGED <<llmInput, text, llmShown>>

LlmStep ==
    \/ SkipTranscript \/ StartChunks
    \/ \E returned \in SUBSET (0..llmInput.segments) : ChunkAnswered(returned)
    \/ ChunkFails
    \/ \E applied \in SUBSET EditItems(llm.i) : StageTimesOut(applied)
    \/ ReportOutcome \/ PersistTranscript

\* The stage has returned or raised.
LlmEnded == llm.pc \in {"returned", "timeout"}

LlmSpec == LlmInit /\ [][LlmStep]_llmVars

-----------------------------------------------------------------------------
(* Properties *)

\* The text of every chunk is all original or all its own reply's, and no reply
\* ever touches a segment of another chunk; a chunk that failed, and one whose
\* turn has not come, is original.  (A stage that has timed out is torn: its
\* memory is thrown away.)
ChunksAreAllOrNothing ==
    ~LlmAt("timeout") =>
        \A k \in Segments :
            LET chunk == k \div ChunkSize
            IN  text[k] = IF chunk < llm.i /\ chunk \notin llm.failed THEN chunk ELSE Original

\* The transcript in the context hash is the one the message the user sees last
\* speaks of: every chunk corrected, some, or none; and a timed-out stage leaves it
\* as postprocess wrote it, which is what finalize_failure completes the job with.
StoredAsReported ==
    LET corrected == {k \in Segments : storedText[k] # Original}
        reported == IF LlmAt("returned") THEN llmShown ELSE "skipped"
    IN  /\ reported = "done" => corrected = Segments
        /\ reported = "degraded" => corrected # {} /\ corrected # Segments
        /\ reported \notin {"done", "degraded"} => corrected = {}
=============================================================================
