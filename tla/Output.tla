------------------------------ MODULE Output ------------------------------
(*
What malloc_stats_print and the profiler write: the emitter (emitter.h), which
renders one sequence of calls as JSON or as a table, and the buffered writer
(buf_writer.c) between it and the caller's write callback.

The output is a sequence of tokens: the punctuation of JSON, "k" and ":" for a
key, "v" for a value, "r" for a table row or line and "-" for the separator that
stands for a run of empty rows.  White space is left out.  The calls follow the
nesting rules that the emitter's callers follow: frames is the stack of what is
open, and a key is given exactly inside an object.
Operators named X_<bug> are X with a bug that the properties must detect.
*)
EXTENDS Naturals, Sequences, SequencesExt, FiniteSets

CONSTANTS
    OutOptions,     \* set of [output, size, backup]: size 0 when no buffer was got
    OutMaxCalls,    \* bound: calls of the emitter
    OutMaxDepth,    \* bound: nesting
    OutMaxRows,     \* bound: rows of a sparse table
    OutPiped        \* bound: characters read by buf_writer_pipe

VARIABLES
    oopt,   \* the options
    em,     \* the emitter: [depth, item, key, gap]
    bw,     \* the writer: [buf, out], out the sequence of chunks written
    oghost  \* [frames, printed, rows, calls, pipe, done]

outvars == << oopt, em, bw, oghost >>

Json == oopt.output = "json"

-----------------------------------------------------------------------------
(* The buffered writer. *)

buf_writer_init == [buf |-> << >>, out |-> << >>]

buf_writer_flush(w) == [buf |-> << >>, out |-> Append(w.out, w.buf)]

(* One character of buf_writer_cb: a full buffer is flushed first. *)
BufPut_overwrites(w, c) ==
    IF Len(w.buf) = oopt.size THEN [w EXCEPT !.buf = << c >>]
    ELSE [w EXCEPT !.buf = Append(@, c)]

BufPut(w, c) ==
    IF Len(w.buf) = oopt.size THEN [buf_writer_flush(w) EXCEPT !.buf = << c >>]
    ELSE [w EXCEPT !.buf = Append(@, c)]

RECURSIVE BufPutAll(_, _)
BufPutAll(w, s) == IF s = << >> THEN w ELSE BufPutAll(BufPut(w, Head(s)), Tail(s))

buf_writer_cb(w, s) ==
    IF oopt.size = 0 THEN [w EXCEPT !.out = Append(@, s)] ELSE BufPutAll(w, s)

buf_writer_terminate(w) == IF oopt.size = 0 THEN w ELSE buf_writer_flush(w)

-----------------------------------------------------------------------------
(* The emitter's internal functions, as changes of [em, s]: s is what is printed. *)

emitter_init == [depth |-> 0, item |-> FALSE, key |-> FALSE, gap |-> FALSE]

emitter_nest_inc(e) == [e EXCEPT !.depth = @ + 1, !.item = FALSE]

emitter_nest_dec_fresh(e) == [e EXCEPT !.depth = @ - 1, !.item = FALSE]

emitter_nest_dec(e) == [e EXCEPT !.depth = @ - 1, !.item = TRUE]

(* emitter_json_key_prefix: no comma between a key and its value. *)
Comma(e) == IF ~e.key /\ e.item THEN << "," >> ELSE << >>
Prefixed(e) == [e EXCEPT !.key = FALSE]

emitter_json_key(e) == [e |-> [e EXCEPT !.key = TRUE], s |-> Comma(e) \o << "k", ":" >>]
emitter_json_value(e) == [e |-> [Prefixed(e) EXCEPT !.item = TRUE], s |-> Comma(e) \o << "v" >>]
emitter_json_begin(e, open) == [e |-> emitter_nest_inc(Prefixed(e)), s |-> Comma(e) \o << open >>]
emitter_json_end(e, close) == [e |-> emitter_nest_dec(e), s |-> << close >>]

(* emitter_table_sparse_row and emitter_table_sparse_end. *)
emitter_table_sparse_row(e, is_gap) ==
    [e |-> [e EXCEPT !.gap = is_gap],
     s |-> (IF e.gap /\ ~is_gap THEN << "-" >> ELSE << >>)
           \o (IF is_gap THEN << >> ELSE << "r" >>)]

emitter_table_sparse_end(e) ==
    [e |-> [e EXCEPT !.gap = FALSE], s |-> IF e.gap THEN << "-" >> ELSE << >>]

-----------------------------------------------------------------------------
(* A call: the emitter changes, what it prints goes through the writer. *)
Prints(r) ==
    /\ em' = r.e
    /\ bw' = IF r.s = << >> THEN bw ELSE buf_writer_cb(bw, r.s)

Ghost(frames, r, rows) ==
    oghost' = [oghost EXCEPT !.frames = frames, !.printed = @ \o r.s,
                             !.rows = rows, !.calls = @ + 1]

Open(f) == oghost.frames # << >> /\ Last(oghost.frames) = f
Calling == ~oghost.done /\ oghost.calls < OutMaxCalls /\ oghost.pipe = 0

Emits(r, frames, rows) == Prints(r) /\ Ghost(frames, r, rows) /\ UNCHANGED oopt
Same == oghost.frames

(* emitter_begin; in a table nothing but the first, empty, write. *)
emitter_begin ==
    /\ ~oghost.done /\ oghost.frames = << >> /\ oghost.calls = 0
    /\ Emits(IF Json THEN [e |-> emitter_nest_inc(em), s |-> << "{" >>]
             ELSE [e |-> em, s |-> << >>], << "object" >>, << >>)

(* A key and its value or the opening of its value. *)
Key ==
    /\ Calling /\ Json /\ Open("object") /\ ~em.key
    /\ Emits(emitter_json_key(em), Same, << >>)

Value ==
    /\ Calling /\ Json /\ (Open("array") \/ em.key)
    /\ Emits(emitter_json_value(em), Same, << >>)

Begin(kind, open) ==
    /\ Calling /\ Json /\ (Open("array") \/ em.key)
    /\ Len(Same) < OutMaxDepth
    /\ Emits(emitter_json_begin(em, open), Append(Same, kind), << >>)

End(kind, close) ==
    /\ Calling /\ Json /\ Open(kind) /\ ~em.key /\ Len(Same) > 1
    /\ Emits(emitter_json_end(em, close), Front(Same), << >>)

(* emitter_kv_note, in either rendering. *)
emitter_kv_note ==
    /\ Calling /\ Open("object") /\ ~em.key /\ oghost.rows = << >>
    /\ LET k == emitter_json_key(em)
           v == emitter_json_value(k.e)
           r == IF Json THEN [e |-> v.e, s |-> k.s \o v.s] ELSE [e |-> em, s |-> << "r" >>]
       IN  Emits([r EXCEPT !.e.item = TRUE], Same, << >>)

(* emitter_dict_begin and emitter_dict_end. *)
emitter_dict_begin ==
    /\ Calling /\ Open("object") /\ ~em.key /\ Len(Same) < OutMaxDepth /\ oghost.rows = << >>
    /\ LET k == emitter_json_key(em)
           b == emitter_json_begin(k.e, "{")
       IN  Emits(IF Json THEN [e |-> b.e, s |-> k.s \o b.s]
                 ELSE [e |-> emitter_nest_inc(em), s |-> << "r" >>],
                 Append(Same, "object"), << >>)

emitter_dict_end ==
    /\ Calling /\ Open("object") /\ ~em.key /\ Len(Same) > 1 /\ oghost.rows = << >>
    /\ Emits(IF Json THEN emitter_json_end(em, "}")
             ELSE [e |-> emitter_nest_dec(em), s |-> << >>], Front(Same), << >>)

(* A sparse table: its rows, and its end. *)
Row(is_gap) ==
    /\ Calling /\ ~Json /\ oghost.calls > 0 /\ Len(oghost.rows) < OutMaxRows
    /\ Emits(emitter_table_sparse_row(em, is_gap), Same, Append(oghost.rows, is_gap))

SparseEnd ==
    /\ Calling /\ oghost.rows # << >>
    /\ Emits(emitter_table_sparse_end(em), Same, << >>)

(* buf_writer_pipe: each read fills what is left of the buffer at most.  Without a
   buffer of its own the writer borrows a small static one. *)
PipeSize == IF oopt.size = 0 THEN oopt.backup ELSE oopt.size

PipeRead == \E n \in 1 .. PipeSize :
    /\ Calling \/ oghost.pipe > 0
    /\ oghost.calls > 0 /\ oghost.rows = << >>
    /\ oghost.pipe + n <= OutPiped
    /\ LET w == IF Len(bw.buf) = PipeSize THEN buf_writer_flush(bw) ELSE bw
       IN  /\ n <= PipeSize - Len(w.buf)
           /\ bw' = [w EXCEPT !.buf = @ \o [i \in 1 .. n |-> "p"]]
    /\ oghost' = [oghost EXCEPT !.pipe = @ + n, !.printed = @ \o [i \in 1 .. n |-> "p"]]
    /\ UNCHANGED << oopt, em >>

(* End of file, or a read error: what was read is flushed. *)
PipeEnd ==
    /\ oghost.pipe > 0
    /\ bw' = buf_writer_flush(bw)
    /\ oghost' = [oghost EXCEPT !.pipe = 0, !.calls = OutMaxCalls]
    /\ UNCHANGED << oopt, em >>

(* emitter_end, then buf_writer_terminate. *)
emitter_end ==
    /\ ~oghost.done /\ oghost.pipe = 0 /\ Len(Same) = 1 /\ ~em.key /\ oghost.rows = << >>
    /\ LET s == IF Json THEN << "}" >> ELSE << >>
       IN  /\ em' = IF Json THEN emitter_nest_dec(em) ELSE em
           /\ bw' = buf_writer_terminate(buf_writer_cb(bw, s))
           /\ oghost' = [oghost EXCEPT !.printed = @ \o s, !.done = TRUE, !.frames = << >>]
    /\ UNCHANGED oopt

OutInit ==
    /\ oopt \in OutOptions
    /\ em = emitter_init
    /\ bw = buf_writer_init
    /\ oghost = [frames |-> << >>, printed |-> << >>, rows |-> << >>, calls |-> 0,
                 pipe |-> 0, done |-> FALSE]

OutNext ==
    \/ emitter_begin \/ Key \/ Value \/ Begin("array", "[") \/ Begin("object", "{")
    \/ End("array", "]") \/ End("object", "}")
    \/ emitter_kv_note \/ emitter_dict_begin \/ emitter_dict_end
    \/ Row(TRUE) \/ Row(FALSE) \/ SparseEnd \/ PipeRead \/ PipeEnd \/ emitter_end

-----------------------------------------------------------------------------
(* A recogniser of JSON prefixes: the stack of open brackets and what may come. *)
Closing(open) == IF open = "{" THEN "}" ELSE "]"
Inside(stack) == IF Last(stack) = "{" THEN "key" ELSE "value"
JsonStep(st, c) ==
    LET value == st.next \in {"value", "value or close"} IN
    CASE st.next = "bad" -> st
      [] c = "p" -> st
      [] c \in {"{", "["} /\ value ->
           [stack |-> Append(st.stack, c),
            next |-> IF c = "{" THEN "key or close" ELSE "value or close"]
      [] c = "v" /\ value /\ st.stack # << >> -> [st EXCEPT !.next = "comma or close"]
      [] c = "k" /\ st.next \in {"key", "key or close"} -> [st EXCEPT !.next = "colon"]
      [] c = ":" /\ st.next = "colon" -> [st EXCEPT !.next = "value"]
      [] c = "," /\ st.next = "comma or close" -> [st EXCEPT !.next = Inside(st.stack)]
      [] c \in {"}", "]"} /\ st.next \in {"comma or close", "key or close", "value or close"}
            /\ c = Closing(Last(st.stack)) ->
           [stack |-> Front(st.stack),
            next |-> IF Len(st.stack) = 1 THEN "end" ELSE "comma or close"]
      [] OTHER -> [st EXCEPT !.next = "bad"]
RECURSIVE JsonFrom(_, _)
JsonFrom(st, s) == IF s = << >> THEN st ELSE JsonFrom(JsonStep(st, Head(s)), Tail(s))
JsonState(s) == JsonFrom([stack |-> << >>, next |-> "value"], s)

RECURSIVE Concat(_)
Concat(chunks) == IF chunks = << >> THEN << >> ELSE Head(chunks) \o Concat(Tail(chunks))

(* A table with every run of empty rows replaced by one separator. *)
Collapsed(rows) ==
    Concat([i \in DOMAIN rows |->
        IF ~rows[i] THEN << "r" >>
        ELSE IF i = Len(rows) \/ ~rows[i + 1] THEN << "-" >> ELSE << >>])

(* JSON output is well-formed at every moment and complete at the end, whatever
   the calls (emitter_json_key_prefix, emitter_nest_inc, emitter_nest_dec), and
   what reaches the write callback is what was printed: nothing lost, repeated or
   reordered by the buffer, however the prints and the reads of a pipe fall on its
   end, in chunks that fit it (buf_writer_cb, buf_writer_pipe,
   buf_writer_terminate). *)
OutputExact ==
    /\ Json => LET next == JsonState(oghost.printed).next
               IN  next # "bad" /\ (oghost.done => next = "end")
    /\ Concat(bw.out) \o bw.buf = oghost.printed
    /\ oghost.done => bw.buf = << >>
    /\ oopt.size > 0 => /\ Len(bw.buf) <= oopt.size
                        /\ \A i \in DOMAIN bw.out : Len(bw.out[i]) <= oopt.size
    /\ Json => em.depth = Len(oghost.frames)
    /\ oghost.rows # << >> =>
         IsSuffix(Collapsed(oghost.rows), oghost.printed \o (IF em.gap THEN << "-" >> ELSE << >>))
=============================================================================
