------------------------------- MODULE ModelList -------------------------------
(***************************************************************************)
(* The panel of the user's models: the list, the probe of a model, which   *)
(* stores what it learned in the model's row, the deletion of a model, and *)
(* the dialog that edits one, by hand or by picking from the provider's    *)
(* list.  The dialog that adds models is ProviderSetup.                    *)
(*                                                                         *)
(* A row is its deployment, a number, 0 for no row; the deployment its     *)
(* label was listed with; and the one its reasoning flag was probed with,  *)
(* both 0 for none.                                                        *)
(***************************************************************************)
EXTENDS Integers

CONSTANTS
  Models,          \* ids of the user's models
  MaxDeployments,  \* bound: deployments there are
  MaxModelCalls    \* bound: requests sent, but for lists

Deployments == 1 .. MaxDeployments
NoModel == "none"

ASSUME ModelBounds == /\ MaxDeployments \in Nat \ {0} /\ MaxModelCalls \in Nat
                      /\ NoModel \notin Models

VARIABLES
  mlRows,    \* the store
  mlList,    \* deployments in the cached list
  mlAsked,   \* the list is asked for
  mlDialog,  \* the dialog
  mlTesting, \* the model whose button says so
  mlNet,     \* requests under way; at is their progress, live whether the callbacks
             \* given to mutate would run
  mlCalls,
  mlOverlap  \* a row was saved while it was probed

mlVars == <<mlRows, mlList, mlAsked, mlDialog, mlTesting, mlNet, mlCalls, mlOverlap>>

NoModelRow == [deployment |-> 0, label |-> 0, flag |-> 0]
NoModelDialog == [model |-> NoModel, deployment |-> 0, switched |-> 0, listed |-> FALSE]
Deployed(rows) == [m \in Models |-> rows[m].deployment]

InitModels ==
  /\ mlRows = [m \in Models |-> [NoModelRow EXCEPT !.deployment = 1]]
  /\ mlList = [m \in Models |-> 0] /\ mlAsked = TRUE
  /\ mlDialog = NoModelDialog /\ mlTesting = NoModel
  /\ mlNet = {} /\ mlCalls = 0 /\ mlOverlap = FALSE

Of(kind) == {r \in mlNet : r.kind = kind}

\* A later call of the same hook takes the callbacks of the ones before.
ModelCall(kind, m) ==
  /\ mlCalls < MaxModelCalls /\ mlCalls' = mlCalls + 1
  /\ mlNet' = {[r EXCEPT !.live = @ /\ r.kind # kind] : r \in mlNet}
       \cup {[kind |-> kind, n |-> mlCalls', model |-> m, deployment |-> mlDialog.deployment,
              label |-> mlDialog.switched, live |-> TRUE, at |-> "sent", ok |-> TRUE]}

-----------------------------------------------------------------------------
(* The list *)

\* The buttons of a model; an open dialog covers them.
CardControls(m) ==
  IF mlList[m] = 0 \/ mlDialog.model # NoModel THEN {}
  ELSE {"edit", "delete"} \cup {c \in {"test"} : mlTesting # m}

\* runTest.
RunTest(m) ==
  /\ "test" \in CardControls(m)
  /\ mlTesting' = m
  /\ ModelCall("test", m)
  /\ UNCHANGED <<mlRows, mlList, mlAsked, mlDialog, mlOverlap>>

DeleteModel(m) ==
  /\ "delete" \in CardControls(m)
  /\ ModelCall("delete", m)
  /\ UNCHANGED <<mlRows, mlList, mlAsked, mlDialog, mlTesting, mlOverlap>>

-----------------------------------------------------------------------------
(* The dialog *)

Dialog(d) ==
  /\ mlDialog' = d
  /\ UNCHANGED <<mlRows, mlList, mlAsked, mlTesting, mlCalls, mlOverlap>>

\* What the dialog of an existing model lets one do.
EditControls ==
  IF mlDialog.model = NoModel THEN {}
  ELSE {"cancel", "type", "fetch"} \cup {c \in {"pick"} : mlDialog.listed}
         \cup {c \in {"save"} : ~ \E r \in Of("save") : r.live}

OpenEdit(m) ==
  /\ "edit" \in CardControls(m)
  /\ Dialog([NoModelDialog EXCEPT !.model = m, !.deployment = mlList[m]])
  /\ UNCHANGED mlNet

TypeDeployment(d) ==
  /\ "type" \in EditControls /\ d # mlDialog.deployment
  /\ Dialog([mlDialog EXCEPT !.deployment = d])
  /\ UNCHANGED mlNet

\* onFetch, with its answer: it forgets the pick and not the deployment that the
\* pick left in the field.
FetchForEdit ==
  /\ "fetch" \in EditControls
  /\ \E ok \in BOOLEAN : Dialog([mlDialog EXCEPT !.listed = ok, !.switched = 0])
  /\ UNCHANGED mlNet

PickForEdit(d) ==
  /\ "pick" \in EditControls
  /\ Dialog([mlDialog EXCEPT !.switched = d, !.deployment = d]) /\ UNCHANGED mlNet

\* onSaveManual.
SaveModel ==
  /\ "save" \in EditControls
  /\ ModelCall("save", mlDialog.model)
  /\ UNCHANGED <<mlRows, mlList, mlAsked, mlDialog, mlTesting, mlOverlap>>

CloseEdit ==
  /\ "cancel" \in EditControls
  /\ Dialog(NoModelDialog)
  /\ mlNet' = {[r EXCEPT !.live = @ /\ r.kind # "save"] : r \in mlNet}

-----------------------------------------------------------------------------
(* The server *)

Served(r, to) ==
  /\ mlNet' = (mlNet \ {r}) \cup {to}
  /\ UNCHANGED <<mlList, mlAsked, mlDialog, mlTesting, mlCalls>>
ModelRow(m, row) == mlRows' = [mlRows EXCEPT ![m] = row]

\* Mutant: the stored settings are updated instead of replaced.
MutantSaved(r) == [deployment |-> r.deployment, label |-> r.label, flag |-> mlRows[r.model].flag]
\* save_user_model builds the settings anew: the flag, and a label that is not
\* sent, are gone.
Saved(r) == [deployment |-> r.deployment, label |-> r.label, flag |-> 0]

\* A row that is gone is made again (its id has the provider's prefix).
SaveArrives(r) ==
  /\ r \in Of("save") /\ r.at = "sent"
  /\ \E ok \in BOOLEAN :
       /\ Served(r, [r EXCEPT !.at = "done", !.ok = ok])
       /\ IF ok
          THEN /\ ModelRow(r.model, Saved(r))
               /\ mlOverlap' = (mlOverlap \/ \E t \in Of("test") :
                                               t.at = "probed" /\ t.model = r.model)
          ELSE UNCHANGED <<mlRows, mlOverlap>>

DeleteArrives(r) ==
  /\ r \in Of("delete") /\ r.at = "sent"
  /\ Served(r, [r EXCEPT !.at = "done"])
  /\ ModelRow(r.model, NoModelRow) /\ UNCHANGED mlOverlap

\* test_model: the probe uses the deployment of the row as it reads it.
ProbeArrives(r) ==
  /\ r \in Of("test") /\ r.at = "sent"
  /\ LET d == mlRows[r.model].deployment IN
     Served(r, [r EXCEPT !.at = IF d = 0 THEN "done" ELSE "probed", !.deployment = d])
  /\ UNCHANGED <<mlRows, mlOverlap>>

\* _persist_reasoning_flag writes the row of that name; no verdict, no flag.
ProbeEnds(r) ==
  /\ r \in Of("test") /\ r.at = "probed"
  /\ \E verdict \in BOOLEAN :
       /\ Served(r, [r EXCEPT !.at = "done"])
       /\ IF verdict /\ mlRows[r.model].deployment # 0
          THEN ModelRow(r.model, [mlRows[r.model] EXCEPT !.flag = r.deployment])
          ELSE UNCHANGED mlRows
  /\ UNCHANGED mlOverlap

-----------------------------------------------------------------------------
(* Answers *)

\* onSuccess of the hook of a save or deletion: the list is fetched again.
ModelAnswer(r) ==
  /\ r \in mlNet /\ r.kind # "test" /\ r.at = "done"
  /\ mlNet' = (mlNet \ {r}) \cup {[r EXCEPT !.at = "refetch"]}
  /\ mlAsked' = TRUE
  /\ UNCHANGED <<mlRows, mlList, mlDialog, mlTesting, mlCalls, mlOverlap>>

ModelsArrive ==
  /\ mlAsked /\ mlAsked' = FALSE /\ mlList' = Deployed(mlRows)
  /\ UNCHANGED <<mlRows, mlDialog, mlTesting, mlNet, mlCalls, mlOverlap>>

\* The mutation settles after the fetch; a save that was made closes the dialog.
ModelSettles(r) ==
  /\ r \in mlNet /\ r.at = "refetch" /\ ~ mlAsked
  /\ mlNet' = mlNet \ {r}
  /\ mlDialog' = IF r.kind = "save" /\ r.live /\ r.ok THEN NoModelDialog ELSE mlDialog
  /\ UNCHANGED <<mlRows, mlList, mlAsked, mlTesting, mlCalls, mlOverlap>>

\* Mutant: the callbacks are the hook's own, which every call has.
MutantTakes(r) == TRUE
\* The callbacks that runTest gives to mutate are the last call's only.
Takes(r) == r.live

TestAnswer(r) ==
  /\ r \in Of("test") /\ r.at = "done"
  /\ mlNet' = mlNet \ {r}
  /\ IF Takes(r)
     THEN mlTesting' = NoModel ELSE UNCHANGED mlTesting
  /\ UNCHANGED <<mlRows, mlList, mlAsked, mlDialog, mlCalls, mlOverlap>>

\* A request is lost, before it arrives or on the way back; onSettled all the same.
CallLost(r) ==
  /\ r \in mlNet /\ r.at \in {"sent", "done"}
  /\ mlNet' = mlNet \ {r}
  /\ mlTesting' = IF r.kind = "test" /\ Takes(r) THEN NoModel ELSE mlTesting
  /\ UNCHANGED <<mlRows, mlList, mlAsked, mlDialog, mlCalls, mlOverlap>>

NextModels ==
  \/ \E m \in Models : RunTest(m) \/ DeleteModel(m) \/ OpenEdit(m)
  \/ \E d \in Deployments : TypeDeployment(d) \/ PickForEdit(d)
  \/ FetchForEdit \/ SaveModel \/ CloseEdit \/ ModelsArrive
  \/ \E r \in mlNet : SaveArrives(r) \/ DeleteArrives(r) \/ ProbeArrives(r) \/ ProbeEnds(r)
                      \/ ModelAnswer(r) \/ ModelSettles(r) \/ TestAnswer(r) \/ CallLost(r)

SpecModels == InitModels /\ [][NextModels]_mlVars

-----------------------------------------------------------------------------
(* Properties *)

\* The reasoning flag of a row is the measured truth (agent.py:1346-1349): it was
\* probed with the deployment the row has, however edits, deletions and probes
\* followed each other.  Excepted is a row saved while its probe was running.
FlagIsMeasured ==
  ~ mlOverlap => \A m \in Models : mlRows[m].flag \in {0, mlRows[m].deployment}

\* The button says that a model is tested while and only while the answer to its
\* test is awaited, also when another test was started before that answer came
\* (ProvidersPanel.tsx:752-758).
TestingIsAwaited ==
  {mlTesting} \ {NoModel} = {r.model : r \in {t \in Of("test") : t.live}}

\* The label saved with a model is that of its deployment: the comment at
\* ProvidersPanel.tsx:327-328 has it "update alongside deployment".  Does not
\* hold: the deployment can be typed over after one was picked from the list.
LabelOfDeployment == \A m \in Models : mlRows[m].label \in {0, mlRows[m].deployment}
=============================================================================
