----------------------------- MODULE LawsuitForm -----------------------------
(***************************************************************************)
(* PATCH of a lawsuit (UpdateLawsuitService): the fields of the form that  *)
(* comes with it are merged into the form read before, and the whole form  *)
(* is written back.  Several users edit one lawsuit at a time.              *)
(***************************************************************************)
EXTENDS Naturals

CONSTANTS
    FormFields,     \* fields of formPipedriveFields
    FormValues,     \* values a client gives them
    FormEdits,      \* requests to change the lawsuit
    FormEditsBound  \* bound: requests in a behaviour

ASSUME FormAssumption == FormEditsBound \in Nat

VARIABLES
    form,       \* formPipedrive of the stored lawsuit
    patch,      \* what each request was given and has read
    edited,     \* history: the requests that another one's write came after
    editCount   \* history: requests received

formVars == <<form, patch, edited, editCount>>

Unset == "unset"     \* the form has no such field; the request does not give it
Blank == "blank"     \* null or ''
NoForm == [f \in FormFields |-> Unset]
NoPatch == [at |-> "idle", read |-> NoForm, direct |-> NoForm, whole |-> NoForm,
           hasWhole |-> FALSE]

FormInit == /\ form = NoForm /\ patch = [c \in FormEdits |-> NoPatch]
            /\ edited = {} /\ editCount = 0

-----------------------------------------------------------------------------
\* The request's fields and the lawsuit as it is now.  The whole form, if it
\* is there, keeps its blank fields; a blank field beside it does not count.
ReadForm(c) ==
    /\ patch[c].at = "idle" /\ editCount < FormEditsBound
    /\ \E direct \in [FormFields -> FormValues \cup {Unset, Blank}],
          whole \in [FormFields -> FormValues \cup {Unset, Blank}], has \in BOOLEAN :
         /\ has \/ whole = NoForm
         /\ has => direct = NoForm \/ whole = NoForm    \* bound: not both at length
         /\ patch' = [patch EXCEPT ![c] = [at |-> "read", read |-> form,
              direct |-> [f \in FormFields |->
                            IF direct[f] = Blank THEN Unset ELSE direct[f]],
              whole |-> whole, hasWhole |-> has]]
    /\ edited' = edited \ {c}
    /\ editCount' = editCount + 1
    /\ UNCHANGED form

\* Mutation of Merged: the fields already stored are forgotten.
MergedOnlyGiven(e) == IF e.hasWhole THEN e.whole ELSE e.direct

Merged(e) == IF e.hasWhole THEN e.whole
             ELSE [f \in FormFields |-> IF e.direct[f] # Unset THEN e.direct[f]
                                                               ELSE e.read[f]]

\* An empty form is not written.
WriteForm(c) ==
    /\ patch[c].at = "read"
    /\ form' = IF Merged(patch[c]) = NoForm THEN form ELSE Merged(patch[c])
    /\ patch' = [patch EXCEPT ![c] = NoPatch]
    /\ edited' = {d \in FormEdits \ {c} : d \in edited \/ patch[d].at = "read"}
    /\ UNCHANGED editCount

FormNext == \E c \in FormEdits : ReadForm(c) \/ WriteForm(c)
FormSpec == FormInit /\ [][FormNext]_formVars

-----------------------------------------------------------------------------
(* Properties.                                                             *)

\* A field of the stored form changes only by a request that gives it, by one
\* that sends the whole form, or by one that read the form before another
\* request wrote it (it then writes back what it read: the other's change is
\* lost); and a field with a value never becomes blank by a field alone.
FormFieldsKept ==
    [][\A f \in FormFields : form'[f] # form[f] =>
          \E c \in FormEdits :
             LET e == patch[c] IN
             /\ e.at = "read" /\ patch'[c].at = "idle"
             /\ \/ e.hasWhole
                \/ form'[f] = e.direct[f] /\ form'[f] \notin {Unset, Blank}
                \/ c \in edited /\ form'[f] = e.read[f]]_formVars
=============================================================================
