------------------------------ MODULE Curation ------------------------------
(***************************************************************************)
(* How the conversation in memory is kept small.  After every turn the     *)
(* model's edit of the mirrored context, if there is one, is checked and   *)
(* spliced in (live_ctx.rs), and where the messages are still too many the *)
(* oldest whole segments give way to markers (trim.rs).  Both cut a list   *)
(* that the endpoint only accepts if every tool call stands before its     *)
(* results, and trim finds out from the list alone what it did before.     *)
(*                                                                         *)
(* Module Session has the files and the deaths, and any cut that the gates *)
(* let through; here are the cuts the code chooses, with sizes in place of *)
(* texts.                                                                  *)
(***************************************************************************)
EXTENDS Integers, Sequences, Messages

CONSTANTS PerToken,        \* characters to a token: 4
          TrimAbove,       \* TRIM_ABOVE_TOKENS
          TrimTarget,      \* TRIM_TARGET_TOKENS
          SegmentTokens,   \* SEGMENT_TOKENS
          KeepLast,        \* KEEP_LAST_MESSAGES
          MarkerSize,      \* characters of a marker
          Sizes,           \* bound: characters of a message
          MaxBatches,      \* bound: turns
          MaxNotes         \* bound: notes of the operator

ASSUME CurationAssumption ==
    /\ {PerToken, SegmentTokens, MarkerSize} \subseteq Nat \ {0}
    /\ {TrimAbove, TrimTarget, KeepLast, MaxBatches, MaxNotes} \subseteq Nat
    /\ Sizes # {} /\ Sizes \subseteq Nat \ {0}
    /\ TrimTarget < TrimAbove /\ MarkerSize \div PerToken < SegmentTokens

VARIABLES messages,   \* the conversation
          mirrored,   \* how many of them LIVE_CTX.md shows
          batches,    \* turns so far
          notes,      \* notes so far
          stage       \* of the turn

curationVars == <<messages, mirrored, batches, notes, stage>>

Sized(kind, id, size) == [kind |-> kind, id |-> id, size |-> size]
TrimMarker == Sized("trimmed", 0, MarkerSize)
EditMarker == Sized("edited", 0, MarkerSize)

CurationInit ==
    /\ \E size \in Sizes : messages = <<Sized("text", 0, size)>>
    /\ mirrored = 0 /\ batches = 0 /\ notes = 0 /\ stage = "top"

Chars(ms, i, j) ==
    LET Upto[k \in 0..Len(ms)] == IF k = 0 THEN 0 ELSE Upto[k - 1] + ms[k].size
    IN  Upto[j] - Upto[i - 1]

estimate_tokens(ms) == Chars(ms, 1, Len(ms)) \div PerToken

-----------------------------------------------------------------------------
(* The turn.                                                               *)

\* A note, a notice, an advisory.
Notes ==
    /\ stage = "top" /\ notes < MaxNotes /\ notes' = notes + 1
    /\ \E size \in Sizes : messages' = Append(messages, Sized("text", 0, size))
    /\ UNCHANGED <<mirrored, batches, stage>>

\* The context is mirrored, and the model replies: with calls, which are
\* answered, or without, and is kicked on.
Turn ==
    /\ stage = "top" /\ batches < MaxBatches /\ batches' = batches + 1
    /\ mirrored' = Len(messages)
    /\ \E asked \in {0, batches'}, said, got \in Sizes :
         messages' = messages \o
           << Sized("asst", asked, said),
              Sized(IF asked = 0 THEN "text" ELSE "result", asked, got) >>
    /\ stage' = "edit"
    /\ UNCHANGED notes

-----------------------------------------------------------------------------
(* live_ctx.rs: the edit.                                                  *)

is_pinned(i) == i = 1 \/ messages[i].kind \in {"trimmed", "edited"}

\* parse_edit: the model left out some turns, and shortened some.
Edits == [gone : SUBSET {i \in 1..mirrored : ~is_pinned(i)},
          short : {{}} \cup {{i} : i \in {j \in 1..mirrored : ~is_pinned(j)}}]

Shortest == CHOOSE s \in Sizes : \A o \in Sizes : s <= o

\* One marker for a row of turns that are gone; the turn that has just been
\* made follows as it is.
assemble(edit) ==
    LET Now(i) == IF i \in edit.short THEN [messages[i] EXCEPT !.size = Shortest]
                  ELSE messages[i]
        Upto[i \in 0..mirrored] ==
          IF i = 0 THEN <<>>
          ELSE IF i \notin edit.gone THEN Append(Upto[i - 1], Now(i))
          ELSE IF (i - 1) \in edit.gone THEN Upto[i - 1]
          ELSE Append(Upto[i - 1], EditMarker)
    IN  Upto[mirrored] \o SubSeq(messages, mirrored + 1, Len(messages))

Accepted(candidate) ==
    pairs_intact(candidate) /\ estimate_tokens(candidate) < estimate_tokens(messages)

\* check_after_turn: not edited; accepted; or rejected, which the model is told.
check_after_turn ==
    /\ stage = "edit" /\ stage' = "trim"
    /\ \/ UNCHANGED messages
       \/ \E candidate \in {assemble(edit) : edit \in Edits} :
            Accepted(candidate) /\ messages' = candidate
       \/ messages' = Append(messages, Sized("text", 0, Shortest))
    /\ UNCHANGED <<mirrored, batches, notes>>

-----------------------------------------------------------------------------
(* trim.rs: the pass.                                                      *)

\* Slip: a segment ends where it is full.
Absorbs_Nothing(ms, window, i) == i

\* ... or behind the results that follow, in the window.
Absorbs(ms, window, i) ==
    CHOOSE e \in i..window :
        /\ \A k \in i + 1 .. e : ms[k].kind = "result"
        /\ e < window => ms[e + 1].kind # "result"

\* The segment of the window that starts at i: the fewest messages that fill
\* it; a marker of an earlier pass stays for itself.
plan_trim_segments(ms, window, i) ==
    LET full == {e \in i..window : Chars(ms, i, e) \div PerToken >= SegmentTokens}
        end  == IF ms[i].kind = "trimmed" THEN i
                ELSE IF full = {} THEN window
                ELSE Absorbs(ms, window, CHOOSE e \in full : \A o \in full : e <= o)
    IN  [start |-> i, end |-> end,
         complete |-> ms[i].kind # "trimmed" /\ full # {},
         tokens |-> Chars(ms, i, end) \div PerToken]

\* Slip: results behind the window are not looked at.
PairingUnsafe_Start(ms, s) == ms[s.start].kind = "result"

PairingUnsafe(ms, s) ==
    \/ ms[s.start].kind = "result"
    \/ s.complete /\ s.end < Len(ms) /\ ms[s.end + 1].kind = "result"

Collapses(ms, total, s) ==
    total > TrimTarget /\ s.complete /\ ~PairingUnsafe(ms, s)

\* The next segment gives way to a marker, as long as the rest is too much, or
\* stays.
Choose(ms, window, pass) ==
    LET s == plan_trim_segments(ms, window, pass.next)
    IN  IF pass.next > window THEN pass
        ELSE IF Collapses(ms, pass.total, s)
        THEN [next  |-> s.end + 1,
              total |-> pass.total - s.tokens + MarkerSize \div PerToken,
              out   |-> Append(pass.out, TrimMarker)]
        ELSE [pass EXCEPT !.next = s.end + 1,
                          !.out  = @ \o SubSeq(ms, s.start, s.end)]

\* Segment by segment, the oldest first.
transcript_trim(ms) ==
    LET window == Len(ms) - KeepLast
        Pass[n \in 0..window] ==
          IF n = 0 THEN [next |-> 2, total |-> estimate_tokens(ms), out |-> <<ms[1]>>]
          ELSE Choose(ms, window, Pass[n - 1])
    IN  IF estimate_tokens(ms) <= TrimAbove \/ window <= 1 THEN ms
        ELSE Pass[window].out \o SubSeq(ms, window + 1, Len(ms))

Trim ==
    /\ stage = "trim" /\ stage' = "top"
    /\ messages' = transcript_trim(messages)
    /\ UNCHANGED <<mirrored, batches, notes>>

-----------------------------------------------------------------------------
CurationNext == Notes \/ Turn \/ check_after_turn \/ Trim

CurationSpec == CurationInit /\ [][CurationNext]_curationVars

\* What rounding hides in all the markers of a conversation together is not
\* more than what lies between the thresholds (40,000 tokens), or nothing: a
\* pass that got below the one leaves what is below the other when it is
\* counted again.
RoundingIsSmall ==
    \/ MarkerSize % PerToken = 0
    \/ 1 + 3 * MaxBatches + MaxNotes <= TrimAbove - TrimTarget

-----------------------------------------------------------------------------
(* Properties.                                                             *)

\* What is left is a conversation the endpoint accepts: edits and trims, in
\* any order and over what earlier ones left, part no call from its results
\* (live_ctx.rs:321-326).  And a pass is done when it is over: repeated, it
\* finds nothing more to collapse (the test of trim.rs:361-366).
CutsAreWhole ==
    /\ pairs_intact(messages)
    /\ stage = "trim" => LET once == transcript_trim(messages)
                         IN  pairs_intact(once) /\ transcript_trim(once) = once

\* "The request prefix up to the last marker stays byte-stable"
\* (trim.rs:187-189): neither trims nor edits change anything before the last
\* marker of a trim, which the endpoint's prompt cache lives on.
FrozenPrefix ==
    [][\A i \in DOMAIN messages :
          messages[i].kind = "trimmed" =>
             i <= Len(messages') /\ SubSeq(messages', 1, i) = SubSeq(messages, 1, i)
      ]_curationVars
=============================================================================
