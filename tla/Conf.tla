------------------------------- MODULE Conf -------------------------------
(*
The option string (conf.c) and the number parser it uses (malloc_strtoumax of
malloc_io.c).  A string is a sequence of one-character strings.  The five sources
are read in order, each option pair by pair; a pair whose key or value is invalid
leaves the option alone and is remembered as an error.

One option stands for each kind of handler: a bool, an unsigned that is refused
out of range, one that is clipped, and abort_conf, itself a bool.
Operators named X_<bug> are X with a bug that the properties must detect.
*)
EXTENDS Integers, Sequences, FiniteSets, SequencesExt, FiniteSetsExt

CONSTANTS
    CfInputs,       \* sequences of source strings, << >> for a source that is not set
    CfNumbers,      \* strings given to malloc_strtoumax
    UINTMAX_BITS,   \* width of uintmax_t
    UNSIGNED_BITS,  \* width of the option's type
    CfMin, CfMax    \* range of the two numeric options

VARIABLE cf         \* [src, at, pass, opts, error, aborted, done]

CfDigits == << "0", "1", "2", "3", "4", "5", "6", "7", "8", "9", "a", "b" >>
CfSpace == {" "}
KeyChars == ToSet(CfDigits) \cup {"u", "c", "x", "A", "t", "f", "_"}
Nul == "NUL"
CharAt(s, i) == IF i <= Len(s) THEN s[i] ELSE Nul

(* The first place at or after i where s does not have a character of S. *)
Skip(s, i, S) == CHOOSE j \in i .. Len(s) + 1 :
                    /\ CharAt(s, j) \notin S
                    /\ \A k \in i .. j - 1 : s[k] \in S

-----------------------------------------------------------------------------
(* malloc_strtoumax: [val, err, end], end the number of characters read. *)
UINTMAX == 2 ^ UINTMAX_BITS
DigitsBelow(b) == {CfDigits[d + 1] : d \in 0 .. Min({b, Len(CfDigits)}) - 1}
DigitValue(c) == (CHOOSE d \in 1 .. Len(CfDigits) : CfDigits[d] = c) - 1

(* The digits of s from p on, and the check that takes a smaller product for an
   overflow. *)
RECURSIVE ConvertFrom(_, _, _, _)
ConvertFrom(s, p, b, val) ==
    IF CharAt(s, p) \notin DigitsBelow(b) THEN [val |-> val, err |-> "0", at |-> p]
    ELSE LET v == (val * b + DigitValue(s[p])) % UINTMAX
         IN  IF v < val THEN [val |-> UINTMAX - 1, err |-> "ERANGE", at |-> p]
             ELSE ConvertFrom(s, p + 1, b, v)

(* The base the prefix selects, and where the digits start; 0 for "0" followed by
   nothing that extends it, which ends the number. *)
Prefix(s, ns, base) ==
    LET second == CharAt(s, ns + 1) IN
    CASE CharAt(s, ns) # "0" -> << IF base = 0 THEN 10 ELSE base, ns >>
      [] second \in DigitsBelow(8) ->
           IF base \in {0, 8} THEN << 8, ns + 1 >> ELSE << base, ns >>
      [] second = "x" /\ CharAt(s, ns + 2) \in DigitsBelow(16) ->
           IF base \in {0, 16} THEN << 16, ns + 2 >> ELSE << base, ns >>
      [] second = "x" -> << IF base = 0 THEN 10 ELSE base, ns >>
      [] OTHER -> << 0, ns + 1 >>

malloc_strtoumax(s, base) ==
    LET sg == Skip(s, 1, CfSpace)
        neg == CharAt(s, sg) = "-"
        ns == IF CharAt(s, sg) \in {"-", "+"} THEN sg + 1 ELSE sg
        pre == Prefix(s, ns, base)
        r == ConvertFrom(s, pre[2], pre[1], 0)
    IN  CASE base < 0 \/ base = 1 \/ base > 36 ->
               [val |-> UINTMAX - 1, err |-> "EINVAL", end |-> 0]
          [] pre[1] = 0 -> [val |-> 0, err |-> "0", end |-> pre[2] - 1]
          [] r.err # "0" -> [val |-> r.val, err |-> r.err,
                             end |-> IF r.at = ns THEN 0 ELSE r.at - 1]
          [] r.at = ns -> [val |-> UINTMAX - 1, err |-> "EINVAL", end |-> 0]
          [] OTHER -> [val |-> IF neg THEN (UINTMAX - r.val) % UINTMAX ELSE r.val,
                       err |-> "0", end |-> r.at - 1]

-----------------------------------------------------------------------------
(* conf_next from place at of s: the pair, or the end ("stop"), and whether the
   string is malformed. *)
conf_next(s, at) ==
    LET colon == Skip(s, at, KeyChars)
        comma == CHOOSE j \in colon .. Len(s) + 1 :
                    /\ CharAt(s, j) \in {",", Nul}
                    /\ \A k \in colon .. j - 1 : s[k] # ","
    IN  IF CharAt(s, colon) # ":"
        THEN [stop |-> TRUE, key |-> << >>, val |-> << >>, at |-> at,
              err |-> CharAt(s, colon) # Nul \/ colon # at]
        ELSE [stop |-> FALSE, key |-> SubSeq(s, at, colon - 1),
              val |-> SubSeq(s, colon + 1, comma - 1),
              at |-> IF comma <= Len(s) THEN comma + 1 ELSE comma,
              err |-> comma = Len(s)]

(* The handlers: what the option becomes, or "invalid". *)
conf_handle_bool(v) == IF v = << "t" >> THEN {TRUE}
                       ELSE IF v = << "f" >> THEN {FALSE} ELSE {}

(* CONF_HANDLE_T.  The value is cast to the option's type after the checks. *)
CONF_HANDLE_T(v, clip) ==
    LET r == malloc_strtoumax(v, 0)
        um == r.val
    IN  CASE r.err # "0" \/ r.end # Len(v) -> {}
          [] um < CfMin -> IF clip THEN {CfMin} ELSE {}
          [] um > CfMax -> IF clip THEN {CfMax} ELSE {}
          [] OTHER -> {um % 2 ^ UNSIGNED_BITS}

CfDefaults == [b |-> FALSE, u |-> CfMin, c |-> CfMin, A |-> FALSE]

(* The set of the new value of the option a pair names, empty when it is invalid. *)
CfValue(k, v) ==
    CASE k = << "b" >> -> conf_handle_bool(v)
      [] k = << "A" >> -> conf_handle_bool(v)
      [] k = << "u" >> -> CONF_HANDLE_T(v, FALSE)
      [] k = << "c" >> -> CONF_HANDLE_T(v, TRUE)
      [] OTHER -> {}

(* One iteration of malloc_conf_init_helper.  The initial pass handles only the
   early options, of which b stands for one, and reports nothing but malformed
   strings. *)
CfEarly(k) == k = << "b" >>

CfApply_sticky(o, k, v) ==
    IF CfValue(k, v) = {} \/ o[k[1]] # CfDefaults[k[1]] THEN o
    ELSE [o EXCEPT ![k[1]] = CHOOSE x \in CfValue(k, v) : TRUE]

CfApply(o, k, v) ==
    IF CfValue(k, v) = {} THEN o
    ELSE [o EXCEPT ![k[1]] = CHOOSE x \in CfValue(k, v) : TRUE]

CfSource == cf.in[cf.src]

CfPair ==
    /\ ~cf.done /\ cf.src <= Len(cf.in)
    /\ cf.at <= Len(CfSource)
    /\ LET p == conf_next(CfSource, cf.at)
           skipped == cf.pass = 1 /\ ~CfEarly(p.key)
           bad == ~skipped /\ cf.pass = 2 /\ CfValue(p.key, p.val) = {}
       IN  cf' = IF p.stop
                 THEN [cf EXCEPT !.error = @ \/ p.err, !.at = Len(CfSource) + 1]
                 ELSE [cf EXCEPT !.error = @ \/ p.err \/ bad, !.at = p.at,
                         !.opts = IF skipped THEN @ ELSE CfApply(@, p.key, p.val)]

CfNextSource ==
    /\ ~cf.done /\ cf.src <= Len(cf.in)
    /\ cf.at > Len(CfSource)
    /\ cf' = [cf EXCEPT !.src = @ + 1, !.at = 1]

(* malloc_conf_init_pre, then malloc_conf_init over the same strings; the program
   is aborted after all sources when abort_conf ended up set. *)
CfPassEnds ==
    /\ ~cf.done /\ cf.src > Len(cf.in)
    /\ cf' = IF cf.pass = 1 THEN [cf EXCEPT !.pass = 2, !.src = 1, !.at = 1]
             ELSE [cf EXCEPT !.done = TRUE, !.aborted = cf.opts["A"] /\ cf.error]

CfInit == \E in \in CfInputs :
    cf = [in |-> in, src |-> 1, at |-> 1, pass |-> 1, opts |-> CfDefaults,
          error |-> FALSE, aborted |-> FALSE, done |-> FALSE]

CfNext == CfPair \/ CfNextSource \/ CfPassEnds
-----------------------------------------------------------------------------
(* The pieces of a string between its commas. *)
RECURSIVE ConfPieces(_)
ConfPieces(s) ==
    LET commas == {i \in DOMAIN s : s[i] = ","} IN
    IF s = << >> THEN << >>
    ELSE IF commas = {} THEN << s >>
    ELSE << SubSeq(s, 1, Min(commas) - 1) >>
           \o (IF Min(commas) = Len(s) THEN << << >> >>
               ELSE ConfPieces(SubSeq(s, Min(commas) + 1, Len(s))))

(* A piece is a pair when its first colon follows key characters only. *)
Colon(p) == {i \in DOMAIN p : p[i] = ":" /\ \A j \in 1 .. i - 1 : p[j] \in KeyChars}
GoodPieces(s) ==
    LET ps == ConfPieces(s)
        n == CHOOSE n \in 0 .. Len(ps) :
                /\ \A i \in 1 .. n : Colon(ps[i]) # {}
                /\ n < Len(ps) => Colon(ps[n + 1]) = {}
    IN  SubSeq(ps, 1, n)
RECURSIVE GoodIn(_)
GoodIn(in) == IF in = << >> THEN << >> ELSE GoodPieces(Head(in)) \o GoodIn(Tail(in))
PieceKey(p) == SubSeq(p, 1, Min(Colon(p)) - 1)
PieceVal(p) == SubSeq(p, Min(Colon(p)) + 1, Len(p))

(* When the options are settled, each one has the value of the last valid pair for
   it over all sources in order, or its default; and there is an error exactly
   when some source is malformed or some pair before that is invalid; the program
   stops exactly when that is so and abort_conf is set (malloc_conf_init_helper,
   conf_next). *)
ConfLastWins ==
    cf.done =>
      LET good == GoodIn(cf.in)
          valid(k) == SelectSeq(good, LAMBDA p : /\ PieceKey(p) = << k >>
                                                 /\ CfValue(PieceKey(p), PieceVal(p)) # {})
      IN  /\ \A k \in DOMAIN CfDefaults :
               cf.opts[k] = IF valid(k) = << >> THEN CfDefaults[k]
                            ELSE CHOOSE x \in CfValue(<< k >>, PieceVal(Last(valid(k)))) : TRUE
          /\ cf.error <=>
               \/ \E i \in DOMAIN cf.in : GoodPieces(cf.in[i]) # ConfPieces(cf.in[i])
               \/ \E i \in DOMAIN good :
                    CfValue(PieceKey(good[i]), PieceVal(good[i])) = {}
          /\ cf.aborted <=> cf.error /\ cf.opts["A"]
          /\ cf.opts["u"] \in CfMin .. CfMax /\ cf.opts["c"] \in CfMin .. CfMax

(* The number a digit string writes in base b. *)
RECURSIVE Written(_, _)
Written(s, b) == IF s = << >> THEN 0 ELSE Written(Front(s), b) * b + DigitValue(Last(s))
AllDigits(s, b) == s # << >> /\ ToSet(s) \subseteq DigitsBelow(b)

(* malloc_strtoumax reads a plain digit string, signed or not, to its value when
   that fits uintmax_t, honours 0 and 0x prefixes of base 0, and never claims to
   have read a character that is not a digit, a sign or a prefix.  It has no state:
   the behaviour without sources checks it, once. *)
StrtoumaxExact ==
    cf.in = << >> /\ cf.done => \A s \in CfNumbers, b \in {0, 8, 10, 16} :
      LET r == malloc_strtoumax(s, b)
          body == IF s # << >> /\ s[1] \in {"-", "+"} THEN Tail(s) ELSE s
          hex == IF Len(body) > 2 /\ body[1] = "0" /\ body[2] = "x"
                 THEN SubSeq(body, 3, Len(body)) ELSE << >>
          sign(v) == IF s[1] = "-" THEN (UINTMAX - v) % UINTMAX ELSE v
          reads(d, base) ==
              AllDigits(d, base) /\ Written(d, base) < UINTMAX
                => r = [val |-> sign(Written(d, base)), err |-> "0", end |-> Len(s)]
      IN  /\ b \in {8, 10, 16} /\ CharAt(body, 1) # "0" => reads(body, b)
          /\ b = 8 \/ (b = 0 /\ CharAt(body, 1) = "0" /\ Len(body) > 1) => reads(body, 8)
          /\ b = 0 /\ CharAt(body, 1) # "0" => reads(body, 10)
          /\ b \in {0, 16} /\ hex # << >> => reads(hex, 16)
          /\ r.end <= Len(s) /\ (r.end = 0 => r.err # "0")
=============================================================================
