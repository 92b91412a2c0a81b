----------------------------- MODULE StyledText -----------------------------
(***************************************************************************)
(* What the output routines of HyperText.m promise a parser: a text is     *)
(* opened in a style, a style holds for all that is written after it, and  *)
(* the text is what was written, each character in the style of its time.  *)
(***************************************************************************)
EXTENDS TextAttributes, Sequences

VARIABLES
  chars,    \* the text
  current,  \* the attributes of what will be written
  open      \* the text is being written

vars == <<chars, current, open>>

Init == chars = <<>> /\ current = Bare /\ open = FALSE

\* A reader opens the text, emptying it, in a style of the sheet.
Begin(style) ==
  /\ ~open
  /\ chars' = <<>>
  /\ current' = Apply(style, Bare)
  /\ open' = TRUE

Put(c) ==
  /\ open
  /\ chars' = Append(chars, [ch |-> c, at |-> current])
  /\ UNCHANGED <<current, open>>

SetStyle(style) ==
  /\ open
  /\ current' = Apply(style, current)
  /\ UNCHANGED <<chars, open>>

End ==
  /\ open
  /\ open' = FALSE
  /\ current' = Bare
  /\ UNCHANGED chars

Next ==
  \/ \E f \in Font : Begin(SheetStyle(f))
  \/ \E c \in Char : Put(c)
  \/ \E style \in HTStyle : SetStyle(style)
  \/ End

Spec == Init /\ [][Next]_vars

=============================================================================
