--------------------------- MODULE TemplateStream ---------------------------
(***************************************************************************)
(* What the template provider promises the pool: the messages it sends, in *)
(* the order it sends them.  Template ids count up from zero.  The first   *)
(* template is a future one; a future template, which stands for a new     *)
(* chain tip, is followed by the SetNewPrevHash that names it before any   *)
(* other template; the others refresh the template of the current tip.     *)
(***************************************************************************)
EXTENDS Naturals, Sequences

CONSTANTS
  MaxTemplate,  \* bound: templates announced
  None          \* Option::None

VARIABLES
  sent,     \* how many templates were announced
  owed,     \* the future template whose SetNewPrevHash is still to be sent
  tpQueue   \* the messages sent and not yet taken from the channel

streamVars == <<sent, owed, tpQueue>>

Template == 0..(MaxTemplate - 1)

Message == [type : {"NewTemplate"}, template : Template, future : BOOLEAN]
             \cup [type : {"SetNewPrevHash"}, template : Template]

NewTemplate(t, future) == [type |-> "NewTemplate", template |-> t, future |-> future]
SetNewPrevHash(t) == [type |-> "SetNewPrevHash", template |-> t]

Init == sent = 0 /\ owed = None /\ tpQueue = <<>>

SendNewTemplate(future) ==
  /\ owed = None /\ sent < MaxTemplate
  /\ sent = 0 => future
  /\ sent' = sent + 1
  /\ owed' = IF future THEN sent ELSE None
  /\ tpQueue' = Append(tpQueue, NewTemplate(sent, future))

SendSetNewPrevHash ==
  /\ owed # None
  /\ owed' = None
  /\ tpQueue' = Append(tpQueue, SetNewPrevHash(owed))
  /\ UNCHANGED sent

Next == (\E future \in BOOLEAN : SendNewTemplate(future)) \/ SendSetNewPrevHash

Spec == Init /\ [][Next]_streamVars
=============================================================================
