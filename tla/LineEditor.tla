----------------------------- MODULE LineEditor -----------------------------
(***************************************************************************)
(* What the terminal of system_ui promises its user: a line of text with a *)
(* cursor, the lines entered before it to recall, and the command that is  *)
(* run being the line that was entered.                                    *)
(***************************************************************************)
EXTENDS Naturals, Sequences

CONSTANTS
  Chars,        \* what can be typed
  MaxText,      \* how long a line may become
  MaxRecall     \* how many lines can be recalled

VARIABLES
  mode,         \* "idle", "edit": a line is being edited; "run": its command runs
  text,         \* that line
  cursor,       \* characters before the cursor
  recall        \* lines entered before, oldest first

vars == <<mode, text, cursor, recall>>

Init == mode = "idle" /\ text = << >> /\ cursor = 0 /\ recall = << >>

Begin ==
  /\ mode = "idle"
  /\ mode' = "edit"
  /\ UNCHANGED <<text, cursor, recall>>

Before == SubSeq(text, 1, cursor)
After == SubSeq(text, cursor + 1, Len(text))

Type(c) ==
  /\ mode = "edit"
  /\ Len(text) < MaxText
  /\ text' = Before \o <<c>> \o After
  /\ cursor' = cursor + 1
  /\ UNCHANGED <<mode, recall>>

Erase ==
  /\ mode = "edit"
  /\ cursor > 0
  /\ text' = SubSeq(text, 1, cursor - 1) \o After
  /\ cursor' = cursor - 1
  /\ UNCHANGED <<mode, recall>>

Move ==
  /\ mode = "edit"
  /\ cursor' \in {cursor - 1, cursor + 1} \cap (0 .. Len(text))
  /\ UNCHANGED <<mode, text, recall>>

\* An earlier line, or a blank one, takes the place of the current one.
Recall ==
  /\ mode = "edit"
  /\ text' \in {recall[k] : k \in DOMAIN recall} \cup {<< >>}
  /\ cursor' = Len(text')
  /\ UNCHANGED <<mode, recall>>

\* The last MaxRecall elements of s.
Latest(s) ==
  IF Len(s) <= MaxRecall THEN s ELSE SubSeq(s, Len(s) - MaxRecall + 1, Len(s))

Enter ==
  /\ mode = "edit"
  /\ mode' = "run"
  /\ cursor' = 0
  /\ recall' = IF text = << >> \/ (recall # << >> /\ recall[Len(recall)] = text)
                 THEN recall ELSE Latest(Append(recall, text))
  /\ UNCHANGED text

Cancel ==
  /\ mode = "edit"
  /\ mode' = "run"
  /\ text' = << >>
  /\ cursor' = 0
  /\ UNCHANGED recall

Finish ==
  /\ mode = "run"
  /\ mode' = "idle"
  /\ text' = << >>
  /\ UNCHANGED <<cursor, recall>>

Next ==
  \/ Begin \/ Erase \/ Move \/ Recall \/ Enter \/ Cancel \/ Finish
  \/ \E c \in Chars : Type(c)

Spec == Init /\ [][Next]_vars
=============================================================================
