---------------------------- MODULE FillStaging ----------------------------
(***************************************************************************)
(* One fill task at the level of bytes: the frames its upstream reader     *)
(* delivers (fill_chunk_run_inner in data-plane/src/serve.rs), the part of *)
(* them that goes to the client, and the chunks that ChunkStager in        *)
(* data-plane/src/cache.rs assembles from them under temporary names.      *)
(*                                                                         *)
(* The fill covers one file from byte 0 to the end.  When its client's     *)
(* window starts inside the first chunk it may read in two spans: from the *)
(* window on, then the prefix that completes the first chunk.  A slow      *)
(* reader may be raced by a hedge, once per span; which of the two may     *)
(* stage what it reads is up to two gates.                                 *)
(*                                                                         *)
(* An action is one turn of the read loop; ChunkCache has the races of     *)
(* fills.                                                                  *)
(***************************************************************************)
EXTENDS Integers, FiniteSets, Sequences

CONSTANTS
  FileLen,    \* bytes of the file
  ChunkLen,   \* chunk_size of the grid
  MaxFrame,   \* bound: the longest frame
  MaxFaults,  \* bound: staging errors
  Hedge       \* hedge_enabled(), with a throughput floor set

ASSUME StagingAssumption ==
  /\ FileLen \in Nat \ {0} /\ ChunkLen \in Nat \ {0}
  /\ MaxFrame \in 1 .. ChunkLen /\ MaxFaults \in Nat
  /\ Hedge \in BOOLEAN

Offset == 0 .. (FileLen - 1)

(* ChunkGrid.                                                              *)
IndexOf(off) == off \div ChunkLen
Chunk == 0 .. IndexOf(FileLen - 1)
BytesOf(c) == {o \in Offset : IndexOf(o) = c}

NoChunk == -1

VARIABLES
  stager,     \* ChunkStager: cur, written, pending
  disk,       \* tmp: bytes in staged files, tmpFiles: those files,
              \*  object: bytes in published files, row: PRESENT chunks
  window,     \* the client's window, as <<first, last>>
  split,      \* split_serve_first
  span,       \* 1, or 2 for the prefix
  pos,        \* next offset the reader delivers
  gate,       \* may the primary, the hedge stage from their callbacks
  lane,       \* which of the two the reader is
  hedged,     \* hedge_consumed: this span has had its race
  sent,       \* offsets streamed to the client, in order
  gone,       \* client_gone
  served,     \* serve_done_ok
  ok,
  pc,
  faults,     \* staging errors so far
  hedgeServed \* the hedge won a race in the first span (history)

stagingVars == <<stager, disk, window, split, span, pos, gate, lane, hedged, sent,
                 gone, served, ok, pc, faults, hedgeServed>>

-----------------------------------------------------------------------------
(* The stager.  A state st of it has the fields of stager and disk, and    *)
(* err: the call has failed and what is left of its data is dropped.       *)

Fault == {"none", "open", "write", "rename", "insert"}

(* Another chunk's file is closed and its count kept; the file of chunk c  *)
(* is opened at the count it was left at, if it can be.                    *)
Open(st, c, fault) ==
  LET parked == IF st.cur = NoChunk THEN st.pending
                ELSE [st.pending EXCEPT ![st.cur] = st.written]
      closed == [st EXCEPT !.cur = NoChunk, !.written = 0,
                           !.pending = [parked EXCEPT ![c] = 0]] IN
  IF st.cur = c THEN st
  ELSE IF fault = "open" THEN [closed EXCEPT !.err = TRUE]
  ELSE [closed EXCEPT !.cur = c, !.written = parked[c],
                      !.tmpFiles = @ \cup {c}]

(* The staged length has reached the chunk's: rename, then insert the row. *)
Promote(st, c, fault) ==
  LET renamed == [st EXCEPT !.cur = NoChunk, !.written = 0,
                    !.tmp = @ \ BytesOf(c), !.tmpFiles = @ \ {c},
                    !.object = (@ \ BytesOf(c)) \cup (st.tmp \cap BytesOf(c))] IN
  IF fault = "rename" THEN [st EXCEPT !.cur = NoChunk, !.written = 0, !.err = TRUE]
  ELSE IF fault = "insert" THEN [renamed EXCEPT !.err = TRUE]
  ELSE [renamed EXCEPT !.row = @ \cup {c}]

(* The bytes B of chunk c are written and counted.                         *)
Write(st, c, B, fault) ==
  LET w == [st EXCEPT !.written = @ + Cardinality(B), !.tmp = @ \cup B] IN
  IF st.err THEN st
  ELSE IF fault = "write" THEN [st EXCEPT !.err = TRUE]
  ELSE IF w.written = Cardinality(BytesOf(c)) THEN Promote(w, c, fault)
  ELSE w

(* The part of the data B in chunk c.  At most one chunk hits a fault,     *)
(* given as <<chunk, kind>>; later data is not looked at.                  *)
Put(st, c, B, fault) ==
  LET k == IF fault[1] = c THEN fault[2] ELSE "none" IN
  IF st.err THEN st ELSE Write(Open(st, c, k), c, B \cap BytesOf(c), k)

(* The next frame of n bytes.  No longer than a chunk, it lies in one chunk *)
(* or in two.                                                              *)
FrameBytes(n) == pos .. (pos + n - 1)
HeadChunk == IndexOf(pos)
TailChunk(n) == IndexOf(pos + n - 1)

(* stage(): the frame is cut at chunk boundaries.                          *)
Stage(st, n, fault) ==
  LET head == Put(st, HeadChunk, FrameBytes(n), fault) IN
  IF TailChunk(n) = HeadChunk THEN head ELSE Put(head, TailChunk(n), FrameBytes(n), fault)

Calm == [cur |-> stager.cur, written |-> stager.written, pending |-> stager.pending,
         tmp |-> disk.tmp, tmpFiles |-> disk.tmpFiles, object |-> disk.object,
         row |-> disk.row, err |-> FALSE]

Becomes(st) ==
  /\ stager' = [cur |-> st.cur, written |-> st.written, pending |-> st.pending]
  /\ disk' = [tmp |-> st.tmp, tmpFiles |-> st.tmpFiles, object |-> st.object,
              row |-> st.row]

(* A failed call is logged and ignored.                                    *)
Stages(n) ==
  \/ Becomes(Stage(Calm, n, <<NoChunk, "none">>)) /\ UNCHANGED faults
  \/ /\ faults < MaxFaults
     /\ \E c \in {HeadChunk, TailChunk(n)}, k \in Fault \ {"none"} :
          LET st == Stage(Calm, n, <<c, k>>) IN st.err /\ Becomes(st)
     /\ faults' = faults + 1

StagesNothing == UNCHANGED <<stager, disk, faults>>

(* abort(), and finish(), which finds no complete chunk left: stage() has  *)
(* promoted it, or has failed to.  Both remove the file of the current     *)
(* chunk.                                                                  *)
Discards(keepPending) ==
  /\ stager' = [cur |-> NoChunk, written |-> 0,
                pending |-> [c \in Chunk |->
                   IF keepPending /\ c # stager.cur THEN stager.pending[c] ELSE 0]]
  /\ disk' = IF stager.cur = NoChunk THEN disk
             ELSE [disk EXCEPT !.tmp = @ \ BytesOf(stager.cur),
                               !.tmpFiles = @ \ {stager.cur}]
  /\ UNCHANGED faults

-----------------------------------------------------------------------------
SpanStart(n) == IF n = 1 /\ split THEN window[1] ELSE 0
SpanEnd(n) == IF n = 2 THEN window[1] - 1 ELSE FileLen - 1

StagingInit ==
  /\ stager = [cur |-> NoChunk, written |-> 0, pending |-> [c \in Chunk |-> 0]]
  /\ disk = [tmp |-> {}, tmpFiles |-> {}, object |-> {}, row |-> {}]
  /\ window \in {w \in Offset \X Offset : w[1] <= w[2] /\ IndexOf(w[1]) = 0}
  /\ split \in BOOLEAN /\ (split => window[1] > 0)
  /\ span = 1 /\ pos = 0
  /\ gate = [primary |-> TRUE, hedge |-> FALSE]
  /\ lane = "primary" /\ hedged = FALSE
  /\ sent = <<>> /\ gone = FALSE
  /\ served = FALSE /\ ok = TRUE
  /\ pc = "span" /\ faults = 0 /\ hedgeServed = FALSE

fillVars == <<window, split>>

(* A new reader, on the warm lane of the previous span.                    *)
OpenSpan ==
  /\ pc = "span"
  /\ pc' = "read"
  /\ pos' = SpanStart(span)
  /\ lane' = "primary" /\ hedged' = FALSE
  /\ StagesNothing
  /\ UNCHANGED <<fillVars, span, gate, sent, gone, served, ok, hedgeServed>>

(* No capability or no response.                                           *)
OpenFails ==
  /\ pc = "span"
  /\ pc' = "tail" /\ ok' = FALSE
  /\ StagesNothing
  /\ UNCHANGED <<fillVars, span, pos, gate, lane, hedged, sent, gone, served, hedgeServed>>

(* The prefix is optional: not under provider pressure, and not for a      *)
(* client that is gone.                                                    *)
SkipPrefix ==
  /\ pc = "span" /\ span = 2
  /\ pc' = "tail"
  /\ StagesNothing
  /\ UNCHANGED <<fillVars, span, pos, gate, lane, hedged, sent, gone, served, ok, hedgeServed>>

(* The next frame is n bytes, within the span.                             *)
Yields(n) == pc = "read" /\ pos + n - 1 <= SpanEnd(span)

(* Mutant: the slice is cut at the end of the chunk, not of the window.    *)
Delivers_WholeChunk(n) ==
  LET os == IF pos < window[1] THEN window[1] ELSE pos
      oe == pos + n - 1 IN
  IF gone \/ os > oe
  THEN UNCHANGED <<sent, gone>>
  ELSE \/ /\ sent' = sent \o [i \in 1 .. (oe - os + 1) |-> os + i - 1]
          /\ UNCHANGED gone
       \/ gone' = TRUE /\ UNCHANGED sent
(* What lies in the window goes to the client (window_slice); the send     *)
(* fails when it has hung up.                                              *)
Delivers(n) ==
  LET os == IF pos < window[1] THEN window[1] ELSE pos
      oe == IF pos + n - 1 > window[2] THEN window[2] ELSE pos + n - 1 IN
  IF gone \/ os > oe
  THEN UNCHANGED <<sent, gone>>
  ELSE \/ /\ sent' = sent \o [i \in 1 .. (oe - os + 1) |-> os + i - 1]
          /\ UNCHANGED gone
       \/ gone' = TRUE /\ UNCHANGED sent

(* An elected frame and a plain one go through the same arm of the loop.   *)
Takes(n) == Delivers(n) /\ pos' = pos + n

ReadFrame(n) ==
  /\ Yields(n) /\ Takes(n)
  /\ IF gate[lane] THEN Stages(n) ELSE StagesNothing
  /\ UNCHANGED <<fillVars, span, gate, lane, hedged, served, ok, pc, hedgeServed>>

(* The reader is slow, a warm standby is free: both are asked for the next *)
(* frame.  The primary's gate is closed meanwhile, and the winner's frame  *)
(* is staged by hand.                                                      *)
Races == Hedge /\ ~hedged /\ pc = "read" /\ pos > SpanStart(span) /\ hedged' = TRUE

(* The hedge's own callback has staged the frame already, if a race of an  *)
(* earlier span left its gate open.                                        *)
StagesTwice(n) ==
  Becomes(Stage(Stage(Calm, n, <<NoChunk, "none">>), n, <<NoChunk, "none">>))

(* Mutant: the primary's gate is not closed for the race.                  *)
PrimaryWins_GateOpen(n) ==
  /\ Races /\ Yields(n) /\ Takes(n)
  /\ StagesTwice(n) /\ UNCHANGED faults
  /\ gate' = [gate EXCEPT !.primary = TRUE]
  /\ UNCHANGED <<fillVars, span, lane, served, ok, pc, hedgeServed>>

PrimaryWins(n) ==
  /\ Races /\ Yields(n) /\ Takes(n)
  /\ Stages(n)
  /\ gate' = [gate EXCEPT !.primary = TRUE]
  /\ UNCHANGED <<fillVars, span, lane, served, ok, pc, hedgeServed>>

HedgeWins(n) ==
  /\ Races /\ Yields(n) /\ Takes(n)
  /\ IF gate.hedge THEN StagesTwice(n) /\ UNCHANGED faults ELSE Stages(n)
  /\ gate' = [primary |-> FALSE, hedge |-> TRUE]
  /\ lane' = "hedge"
  /\ hedgeServed' = (hedgeServed \/ span = 1)
  /\ UNCHANGED <<fillVars, span, served, ok, pc>>

(* Mutant: the primary keeps its gate closed after a lost hedge.           *)
HedgeFails_GateClosed ==
  /\ Races
  /\ gate' = [gate EXCEPT !.primary = FALSE]
  /\ StagesNothing
  /\ UNCHANGED <<fillVars, span, pos, lane, sent, gone, served, ok, pc, hedgeServed>>

HedgeFails ==
  /\ Races
  /\ gate' = [gate EXCEPT !.primary = TRUE]
  /\ StagesNothing
  /\ UNCHANGED <<fillVars, span, pos, lane, sent, gone, served, ok, pc, hedgeServed>>

Terminal ==
  /\ pc = "read" /\ pos <= SpanEnd(span)
  /\ pc' = "tail" /\ ok' = FALSE
  /\ StagesNothing
  /\ UNCHANGED <<fillVars, span, pos, gate, lane, hedged, sent, gone, served, hedgeServed>>

(* Mutant: the prefix is followed by one more span.                        *)
EndSpan_Again ==
  /\ pc = "read" /\ pos > SpanEnd(span)
  /\ served' = TRUE
  /\ IF split THEN span' = span + 1 /\ pc' = "span"
              ELSE pc' = "tail" /\ UNCHANGED span
  /\ StagesNothing
  /\ UNCHANGED <<fillVars, pos, gate, lane, hedged, sent, gone, ok, hedgeServed>>

EndSpan ==
  /\ pc = "read" /\ pos > SpanEnd(span)
  /\ served' = TRUE
  /\ IF split /\ span = 1 THEN span' = 2 /\ pc' = "span"
                          ELSE pc' = "tail" /\ UNCHANGED span
  /\ StagesNothing
  /\ UNCHANGED <<fillVars, pos, gate, lane, hedged, sent, gone, ok, hedgeServed>>

(* The tail: what is incomplete is discarded, and the client hears Eof if  *)
(* its window was served.                                                  *)
Finish ==
  /\ pc = "tail"
  /\ pc' = IF ok \/ served THEN "eof" ELSE "failed"
  /\ Discards(ok)
  /\ UNCHANGED <<fillVars, span, pos, gate, lane, hedged, sent, gone, served, ok, hedgeServed>>

StagingNext ==
  \/ OpenSpan \/ OpenFails \/ SkipPrefix
  \/ \E n \in 1 .. MaxFrame : ReadFrame(n) \/ PrimaryWins(n) \/ HedgeWins(n)
  \/ HedgeFails \/ Terminal \/ EndSpan \/ Finish

StagingSpec == StagingInit /\ [][StagingNext]_stagingVars

-----------------------------------------------------------------------------
(* Properties.                                                             *)

(* Type invariant of the fill and its stager.                              *)
StagingTypeOK ==
  /\ stager \in [cur : Chunk \cup {NoChunk}, written : Nat, pending : [Chunk -> Nat]]
  /\ disk \in [tmp : SUBSET Offset, tmpFiles : SUBSET Chunk,
               object : SUBSET Offset, row : SUBSET Chunk]
  /\ window \in Offset \X Offset /\ split \in BOOLEAN /\ span \in 1 .. 2
  /\ pos \in 0 .. FileLen /\ gate \in [{"primary", "hedge"} -> BOOLEAN]
  /\ lane \in {"primary", "hedge"} /\ hedged \in BOOLEAN
  /\ sent \in Seq(Offset) /\ gone \in BOOLEAN
  /\ served \in BOOLEAN /\ ok \in BOOLEAN
  /\ pc \in {"span", "read", "tail", "eof", "failed"}
  /\ faults \in 0 .. MaxFaults /\ hedgeServed \in BOOLEAN

Whole(c) == BytesOf(c) \subseteq disk.object

(* A chunk is PRESENT only with all its bytes: counting staged bytes, with *)
(* the head of a split fill put aside and resumed, swallowed staging       *)
(* errors and races of two readers, never takes a chunk with a hole for a  *)
(* complete one -- unless a hedge won the first span of a split fill.      *)
PublishedWhole == (split /\ hedgeServed) \/ \A c \in disk.row : Whole(c)

(* The same without the exception (serve.rs, staging discipline of a race: *)
(* the winner's first chunk is staged exactly once).                       *)
PresentMeansComplete == \A c \in disk.row : Whole(c)

(* A fill that read everything publishes everything: no gate left closed   *)
(* by a race, and no resumed head, loses bytes that were paid for.         *)
ReadMeansPublished ==
  pc \in {"eof", "failed"} /\ ok /\ faults = 0 /\ (split => span = 2 /\ pos = window[1])
    /\ ~(split /\ hedgeServed)
    => disk.row = Chunk

(* The client gets its window's bytes once each, in order, from the first  *)
(* one, and nothing of the rest of the chunks; and all of them if it is    *)
(* told the window is over.                                                *)
DeliveredExactly ==
  /\ \A i \in 1 .. Len(sent) : sent[i] = window[1] + i - 1 /\ sent[i] <= window[2]
  /\ pc = "eof" /\ ~gone => Len(sent) = window[2] - window[1] + 1

=============================================================================
