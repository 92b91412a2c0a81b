----------------------------- MODULE TextOutput -----------------------------
(***************************************************************************)
(* The readers of the browser and the text they write: readSGML and the    *)
(* news reader, one text at a time, each text a window's.                  *)
(***************************************************************************)
EXTENDS TextStorage

CONSTANT MaxText  \* bound: characters of a text

ASSUME BoundAssumption == MaxText \in Nat

VARIABLES
  text,  \* the text written last
  open   \* a reader is writing it

vars == <<text, open>>

TypeOK == text \in Text /\ open \in BOOLEAN

Init == text = NewText /\ open = FALSE

\* An exception ends the reader.
Write(t) ==
  /\ open
  /\ text' = t
  /\ open' = ~t.raised

\* readSGML begins in the Normal style.
Begin(style) ==
  /\ ~open
  /\ text' = SetStyle(AppendBegin(text), style)
  /\ open' = ~text'.raised

\* The news reader begins in none.
BeginBare ==
  /\ ~open
  /\ text' = AppendBegin(text)
  /\ open' = TRUE

Put(c) == Len(text.storage) < MaxText /\ Write(OutputChar(text, c))

Set(style) == Len(text.storage) < MaxText /\ Write(SetStyle(text, style))

End ==
  /\ open
  /\ text' = FinishOutput(text)
  /\ open' = FALSE

\* </NODE> and <PLAINTEXT> take readSGML past FINISH_OUTPUT.  The second reads
\* the rest of the file in place of the text.
Leave ==
  /\ open
  /\ \/ UNCHANGED text
     \/ \E c \in Char : text' = [text EXCEPT !.storage = <<[ch |-> c, at |-> Bare]>>]
  /\ open' = FALSE

OrderlyNext ==
  \/ \E f \in Font : Begin(SheetStyle(f))
  \/ \E c \in Char : Put(c)
  \/ \E style \in HTStyle : Set(style)
  \/ End

Next == OrderlyNext \/ BeginBare \/ Leave

Spec == Init /\ [][Next]_vars

\* Readers that begin in a style and end with FINISH_OUTPUT.
OrderlySpec == Init /\ [][OrderlyNext]_vars

-----------------------------------------------------------------------------

\* A dummy is only ever the last character, and the only one: no style leaves
\* its own behind in the text, whoever reads and however the reading ends.
DummyIsLast ==
  \A i \in DOMAIN text.storage :
    text.storage[i].ch = Dummy => i = Len(text.storage)

\* What is written with the dummy taken away, and the attributes kept on the
\* last character, dummy or not, are a text in which each style holds for what
\* is written after it.
Promise ==
  INSTANCE StyledText WITH
    chars   <- Written(text),
    current <- IF open THEN LastAttributes(text) ELSE Bare

StylesHold == Promise!Spec

=============================================================================
