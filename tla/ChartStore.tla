----------------------------- MODULE ChartStore -----------------------------
(***************************************************************************)
(* What the installed charts promise, whatever the downloads, dialogs and  *)
(* clicks do: the recorded edition of a chartset is complete in its chart  *)
(* directory unless a task is just being applied to it, an edition is      *)
(* recorded only when it is complete, and a record is saved before the     *)
(* next one is made.  InstallChain is shown to implement this module.      *)
(***************************************************************************)
EXTENDS Integers

CONSTANTS Charts, MaxEd

VARIABLES
  installed,  \* edition recorded, per chartset
  saved,      \* ... in the configuration file
  content,    \* editions whose changes are in the chart directory
  applying    \* chartsets a task is being applied to

store == <<installed, saved, content, applying>>

Complete(c, e) == 1..e \subseteq content[c]

Init ==
  /\ installed \in [Charts -> 0..MaxEd]
  /\ saved = installed
  /\ content = [c \in Charts |-> 1..installed[c]]
  /\ applying = {}

Begin(c) ==
  /\ applying = {}
  /\ applying' = {c}
  /\ UNCHANGED <<installed, saved, content>>

\* A replacement removes the charts in place first.
Clear(c) ==
  /\ c \in applying
  /\ content' = [content EXCEPT ![c] = {}]
  /\ UNCHANGED <<installed, saved, applying>>

\* A task ends with the recorded edition in place again, and maybe more.
Place(c) ==
  /\ c \in applying
  /\ \E more \in SUBSET (1..MaxEd) :
       content' = [content EXCEPT ![c] = @ \cup more]
  /\ 1..installed[c] \subseteq content'[c]
  /\ applying' = applying \ {c}
  /\ UNCHANGED <<installed, saved>>

Record(c, e) ==
  /\ applying = {} /\ saved = installed
  /\ Complete(c, e)
  /\ installed' = [installed EXCEPT ![c] = e]
  /\ UNCHANGED <<saved, content, applying>>

Save ==
  /\ saved' = installed
  /\ UNCHANGED <<installed, content, applying>>

Next ==
  \/ Save
  \/ \E c \in Charts : Begin(c) \/ Clear(c) \/ Place(c)
  \/ \E c \in Charts, e \in 1..MaxEd : Record(c, e)

Spec == Init /\ [][Next]_store
=============================================================================
