--------------------------- MODULE BlockPagesProofs ----------------------------
(***************************************************************************)
(* Proofs about the pages of a block, for every value of their constants:  *)
(* BlockCreator, BlockFiles and FileTree.  None of the properties is       *)
(* inductive:                                                              *)
(*   - a block is whole at the end because SagaOK says of every step of    *)
(*     its creation what the rest is made for, and BlocksApart that no two *)
(*     creations that overlap are about one block;                         *)
(*   - what is shown is current because ListsCurrent and TextsSelected say *)
(*     what is on its way, and OneActive who asked for it;                 *)
(*   - a tree is complete at the end because ItemsOfMet and ItemsMatch say *)
(*     so at every turn of the loops, of the names they have been through. *)
(***************************************************************************)
EXTENDS WebPagesProofs

-----------------------------------------------------------------------------
(* Creating a block *)

Born == {"wait", "template", "copy", "config"}
Running == Born \cup {"application", "create"}

\* The type invariant, with the stacks of modals there are.
CreatorStacks == {<<>>, <<"creator">>, <<"creator", "creating">>}
CreatorOK ==
    /\ row \in [Blocks -> Statuses \cup {"unborn", "deleted"}]
    /\ home \in [Blocks -> AppVersions \cup {"none"}]
    /\ active \in AppVersions
    /\ template \in [Blocks -> SUBSET [version : AppVersions, framework : Creator!AllFrameworks]]
    /\ config \in [Blocks -> [version : AppVersions, framework : Creator!Chosen, port : Ports]
                             \cup {Creator!NoConfig}]
    /\ puts \subseteq [block : Blocks, version : AppVersions, framework : Creator!Chosen, port : Ports]
    /\ builds \subseteq Blocks
    /\ modals \in CreatorStacks
    /\ saga \in [Sagas -> Creator!Runs]
    /\ changes \in 0..MaxChanges /\ faults \in 0..MaxFaults
    /\ switched \subseteq Blocks /\ bare \subseteq Blocks

\* What the fields hold fits.
FormFits ==
    /\ form \in [type : Types, framework : Creator!Chosen, port : Ports, filled : BOOLEAN]
    /\ form.framework # "none" => form.framework \in Frameworks[form.type]
    /\ Creator!Fits(form)

\* What there is of a block came after its row.
Configured(b) == config[b] # Creator!NoConfig \/ \E p \in puts : p.block = b

\* A run keeps what fitted when it was clicked; its block has a row of the
\* version it was read for, no configuration yet, and no other template.
SagaOK(s) ==
    /\ saga[s].at \in Running => Creator!Fits(saga[s]) /\ saga[s].port \in Ports \ {0}
    /\ saga[s].at \in Born \cup {"create"} => saga[s].version \in AppVersions
    /\ saga[s].at \in Born => /\ saga[s].block \in Blocks
                              /\ row[saga[s].block] # "unborn"
                              /\ home[saga[s].block] = saga[s].version
                              /\ ~ Configured(saga[s].block)
                              /\ \A t \in template[saga[s].block] : t.framework = saga[s].framework
    /\ saga[s].at \in {"wait", "template"} =>
           active = saga[s].version \/ saga[s].block \in switched
    /\ saga[s].at \in {"template", "copy"} => saga[s].framework \in Creator!AllFrameworks
    /\ saga[s].at = "copy" => /\ saga[s].copyTo \in AppVersions
                              /\ saga[s].copyTo = saga[s].version \/ saga[s].block \in switched
SagasOK == \A s \in Sagas : SagaOK(s)

\* No two runs are about one block.
BlocksApart ==
    \A r, s \in Sagas :
        saga[r].at \in Born /\ saga[s].at \in Born /\ saga[r].block = saga[s].block => r = s

\* It is of the version of the row, and one is made for the other.
Made(c, b) ==
    /\ c.version = home[b] /\ c.port # 0 /\ Creator!Fits(c)
    /\ \A t \in template[b] : t.framework = c.framework
BeingMade(b) == \E s \in Sagas : saga[s].at \in Born /\ saga[s].block = b
BlockWhole(b) ==
    /\ row[b] = "unborn" => ~ Configured(b) /\ template[b] = {}
    /\ config[b] # Creator!NoConfig => Made(config[b], b)
    /\ \A p \in puts : p.block = b => Made(p, b)
    /\ \A t \in template[b] : t.version = home[b] \/ b \in switched
    /\ row[b] \in Statuses /\ b \notin bare => Configured(b) \/ BeingMade(b)
BlocksWhole == \A b \in Blocks : BlockWhole(b)

CreatorInv == CreatorOK /\ FormFits /\ SagasOK /\ BlocksApart /\ BlocksWhole

LEMMA CreatorMoves ==
    /\ Creator!Opened(<<>>, "creator") = <<"creator">>
    /\ \A s \in CreatorStacks :
          /\ Creator!Top(s) = "page" => s = <<>>
          /\ Creator!IsOpen(s, "creator") =>
                Creator!Opened(s, "creating") = <<"creator", "creating">>
          /\ Creator!Closed(s, {"creating"}) \in CreatorStacks
          /\ Creator!Closed(s, {"creator", "creating"}) = <<>>
<1>1. /\ Creator!Opened(<<>>, "creator") = <<"creator">>
      /\ Creator!Opened(<<"creator">>, "creating") = <<"creator", "creating">>
      /\ Creator!Opened(<<"creator", "creating">>, "creating") = <<"creator", "creating">>
  BY CreatorModals, StacksOpen
<1>2. /\ Creator!Closed(<<>>, {"creating"}) = <<>>
      /\ Creator!Closed(<<"creator">>, {"creating"}) = <<"creator">>
      /\ Creator!Closed(<<"creator", "creating">>, {"creating"}) = <<"creator">>
  BY CreatorModals, StacksClose
<1>3. /\ Creator!Closed(<<>>, {"creator", "creating"}) = <<>>
      /\ Creator!Closed(<<"creator">>, {"creator", "creating"}) = <<>>
      /\ Creator!Closed(<<"creator", "creating">>, {"creator", "creating"}) = <<>>
  BY CreatorModals, StacksClose
<1>4. ASSUME NEW s \in CreatorStacks
      PROVE  Creator!Top(s) = "page" => s = <<>>
  <2>1. /\ Screen!Top(<<"creator", "creating">>) = "creating"
        /\ Screen!Top(<<"creator">>) = "creator"
    BY StacksTop
  <2> QED
    BY <2>1, CreatorModals DEF CreatorStacks
<1>5. ~ Creator!IsOpen(<<>>, "creator")
  BY DEF Creator!IsOpen
<1> QED
  BY <1>1, <1>2, <1>3, <1>4, <1>5 DEF CreatorStacks

LEMMA EndedRuns ==
    /\ Creator!NoSaga \in Creator!Runs /\ Creator!NoSaga.at = "idle"
    /\ Creator!Ended \in Creator!Runs /\ Creator!Ended.at = "done"
BY DEF Creator!NoSaga, Creator!Ended, Creator!Runs, Creator!Chosen

LEMMA InitCreatorInv ==
    ASSUME Creator!CreatorAssumption, Creator!Init
    PROVE  CreatorInv
<1> USE DEF Creator!Init
<1>0. \A s \in Sagas : saga[s].at = "idle" /\ saga[s] \in Creator!Runs
  BY DEF Creator!NoSaga, Creator!Runs, Creator!Chosen
<1>1. CreatorOK
  BY <1>0 DEF CreatorOK, CreatorStacks, Creator!CreatorAssumption
<1>2. FormFits
  BY DEF FormFits, Creator!EmptyForm, Creator!Fits, Creator!Chosen, Creator!CreatorAssumption
<1>3. SagasOK /\ BlocksApart
  BY <1>0 DEF SagasOK, SagaOK, BlocksApart, Running, Born
<1>4. BlocksWhole
  BY DEF BlocksWhole, BlockWhole, Configured, Creator!CreatorAssumption
<1> QED
  BY <1>1, <1>2, <1>3, <1>4 DEF CreatorInv

-----------------------------------------------------------------------------
(* What a step that leaves a part alone keeps *)

CreatorData == <<row, home, template, config, puts>>

LEMMA FieldsAside ==
    ASSUME CreatorInv, UNCHANGED form
    PROVE  FormFits'
BY DEF CreatorInv, FormFits, Creator!Fits

LEMMA SagaAside ==
    ASSUME CreatorInv, NEW s \in Sagas, UNCHANGED <<CreatorData, active, switched>>,
           saga'[s] = saga[s] \/ saga'[s] = [saga[s] EXCEPT !.here = FALSE]
    PROVE  SagaOK(s)' /\ saga'[s].at = saga[s].at /\ saga'[s].block = saga[s].block
<1>0. SagaOK(s) /\ saga[s] \in Creator!Runs
  BY DEF CreatorInv, SagasOK, CreatorOK
<1>1. /\ saga'[s].at = saga[s].at /\ saga'[s].block = saga[s].block
      /\ saga'[s].version = saga[s].version /\ saga'[s].copyTo = saga[s].copyTo
      /\ saga'[s].framework = saga[s].framework /\ saga'[s].port = saga[s].port
  BY <1>0 DEF Creator!Runs
<1>2. Configured(saga[s].block)' <=> Configured(saga[s].block)
  BY <1>1 DEF Configured, CreatorData, Creator!NoConfig
<1> QED
  BY <1>0, <1>1, <1>2 DEF SagaOK, CreatorData, Creator!Fits

\* A run that is over says nothing.
LEMMA SagaOver ==
    ASSUME NEW s \in Sagas, saga'[s].at \notin Running
    PROVE  SagaOK(s)'
BY DEF SagaOK, Running, Born

LEMMA WholeAside ==
    ASSUME CreatorInv, UNCHANGED CreatorData, switched \subseteq switched', bare \subseteq bare',
           \A s \in Sagas : saga'[s].at \in Born =>
                saga[s].at \in Born /\ saga'[s].block = saga[s].block,
           \A s \in Sagas : saga[s].at \in Born =>
                \/ saga[s].block \in bare'
                \/ saga'[s].at \in Born /\ saga'[s].block = saga[s].block
    PROVE  BlocksApart' /\ BlocksWhole'
<1>1. BlocksApart'
  BY DEF CreatorInv, BlocksApart
<1> SUFFICES ASSUME NEW b \in Blocks PROVE BlockWhole(b)'
  BY <1>1 DEF BlocksWhole
<1>2. BlockWhole(b)
  BY DEF CreatorInv, BlocksWhole
<1>3. Configured(b)' <=> Configured(b)
  BY DEF Configured, CreatorData, Creator!NoConfig
<1>4. BeingMade(b) => BeingMade(b)' \/ b \in bare'
  BY DEF BeingMade
<1>5. \A c : Made(c, b)' <=> Made(c, b)
  BY DEF Made, CreatorData, Creator!Fits
<1> QED
  BY <1>2, <1>3, <1>4, <1>5 DEF BlockWhole, CreatorData, Creator!NoConfig

\* Nothing of the server or of the runs changes.
LEMMA SagasAside ==
    ASSUME CreatorInv, UNCHANGED <<CreatorData, active, switched, saga>>, bare \subseteq bare'
    PROVE  SagasOK' /\ BlocksApart' /\ BlocksWhole'
<1>1. SagasOK'
  BY SagaAside DEF SagasOK
<1> QED
  BY <1>1, WholeAside

-----------------------------------------------------------------------------
(* The form *)

FormTypes == [type : Types, framework : Creator!Chosen, port : Ports, filled : BOOLEAN]

LEMMA FormFills ==
    ASSUME Creator!CreatorAssumption, CreatorInv, NEW f, Creator!Edited(f), f \in FormTypes,
           f.framework # "none" => /\ f.framework \in Frameworks[f.type]
                                   /\ f.port = DefaultPort[f.framework]
    PROVE  CreatorInv'
<1>1. /\ form' = f /\ UNCHANGED <<modals, saga, changes, faults, builds>>
      /\ UNCHANGED <<CreatorData, active, switched, bare>>
  BY DEF Creator!Edited, Creator!server, Creator!net, Creator!history, CreatorData
<1>2. CreatorOK'
  BY <1>1 DEF CreatorInv, CreatorOK, CreatorData
<1>3. FormFits'
  BY <1>1 DEF FormFits, Creator!Fits, FormTypes
<1> QED
  BY <1>1, <1>2, <1>3, SagasAside DEF CreatorInv

\* The fields of a screen that goes.
LEMMA EmptyFits ==
    ASSUME Creator!CreatorAssumption, form' = Creator!EmptyForm
    PROVE  FormFits'
<1>1. Creator!EmptyForm \in FormTypes /\ Creator!EmptyForm.framework = "none"
  BY DEF Creator!EmptyForm, FormTypes, Creator!Chosen, Creator!CreatorAssumption
<1> QED
  BY <1>1 DEF FormFits, FormTypes, Creator!Fits

LEMMA CreatorFormSteps ==
    ASSUME Creator!CreatorAssumption, CreatorInv, Creator!UserStep
    PROVE  CreatorInv'
<1> USE DEF Creator!server, Creator!net, Creator!history, CreatorData
<1>0. /\ form \in FormTypes
      /\ form.framework # "none" => /\ form.framework \in Frameworks[form.type]
                                    /\ form.port = DefaultPort[form.framework]
      /\ CreatorOK
  BY DEF CreatorInv, FormFits, Creator!Fits, FormTypes
<1>1. CASE Creator!ClickCreator
  <2>1. /\ UNCHANGED <<form, saga, changes, faults, builds>>
        /\ UNCHANGED <<CreatorData, active, switched, bare>>
    BY <1>1 DEF Creator!ClickCreator
  <2>2. modals' = <<"creator">>
    BY <1>0, <1>1, CreatorMoves DEF Creator!ClickCreator, CreatorOK
  <2>3. CreatorOK'
    BY <1>0, <2>1, <2>2 DEF CreatorOK, CreatorStacks
  <2> QED
    BY <2>1, <2>3, FieldsAside, SagasAside DEF CreatorInv
<1>2. CASE Creator!ClickClose
  <2>1. /\ UNCHANGED <<changes, faults, builds>>
        /\ UNCHANGED <<CreatorData, active, switched, bare>>
        /\ form' = Creator!EmptyForm
        /\ modals' = Creator!Closed(modals, {"creator", "creating"})
        /\ saga' = [s \in Sagas |-> IF saga[s].at = "thrown" THEN Creator!Ended
                                    ELSE [saga[s] EXCEPT !.here = FALSE]]
    BY <1>2 DEF Creator!ClickClose, Creator!Unmount
  <2>2. modals' = <<>>
    BY <1>0, <2>1, CreatorMoves DEF CreatorOK
  <2>r. Creator!Ended \in Creator!Runs
    BY EndedRuns
  <2>h. \A r \in Creator!Runs : [r EXCEPT !.here = FALSE] \in Creator!Runs
    BY DEF Creator!Runs
  <2>3. saga' \in [Sagas -> Creator!Runs]
    BY <1>0, <2>1, <2>r, <2>h DEF CreatorOK
  <2>4. CreatorOK'
    BY <1>0, <2>1, <2>2, <2>3 DEF CreatorOK, CreatorStacks
  <2>5. ASSUME NEW s \in Sagas
        PROVE  /\ SagaOK(s)'
               /\ saga'[s].at \in Born => saga[s].at \in Born /\ saga'[s].block = saga[s].block
               /\ saga[s].at \in Born => saga'[s].at \in Born /\ saga'[s].block = saga[s].block
    <3>1. CASE saga[s].at = "thrown"
      <4>1. saga'[s].at = "done"
        BY <2>1, <3>1 DEF Creator!Ended, Creator!NoSaga
      <4> QED
        BY <3>1, <4>1, SagaOver DEF Born, Running
    <3>2. CASE saga[s].at # "thrown"
      BY <2>1, <3>2, SagaAside
    <3> QED
      BY <3>1, <3>2
  <2>6. SagasOK' /\ BlocksApart' /\ BlocksWhole'
    BY <2>1, <2>5, WholeAside DEF SagasOK
  <2> QED
    BY <2>1, <2>4, <2>6, EmptyFits DEF CreatorInv
<1>3. CASE Creator!ClickCreate
  <2>1. /\ UNCHANGED <<form, changes, faults, builds>>
        /\ UNCHANGED <<CreatorData, active, switched, bare>>
        /\ modals' = Creator!Opened(modals, "creating")
        /\ Creator!IsOpen(modals, "creator") /\ Creator!Complete
    BY <1>3 DEF Creator!ClickCreate, Creator!Mounted
  <2> DEFINE new == [Creator!NoSaga EXCEPT !.at = "application", !.here = TRUE,
                                           !.framework = form.framework, !.port = form.port]
  <2>2. PICK mine \in Sagas : saga[mine].at = "idle" /\ saga' = [saga EXCEPT ![mine] = new]
    BY <1>3 DEF Creator!ClickCreate, Creator!At
  <2>3. new \in Creator!Runs /\ new.at = "application" /\ new.port = form.port
        /\ new.framework = form.framework
    BY <1>0 DEF Creator!NoSaga, Creator!Runs, Creator!Chosen, FormTypes
  <2> HIDE DEF new
  <2>4. modals' \in CreatorStacks
    BY <1>0, <2>1, CreatorMoves DEF CreatorOK, CreatorStacks
  <2>5. saga' \in [Sagas -> Creator!Runs] /\ saga'[mine] = new
        /\ \A s \in Sagas \ {mine} : saga'[s] = saga[s]
    BY <1>0, <2>2, <2>3 DEF CreatorOK
  <2>6. CreatorOK'
    BY <1>0, <2>1, <2>4, <2>5 DEF CreatorOK
  <2>7. SagaOK(mine)'
    BY <1>0, <2>1, <2>3, <2>5 DEF SagaOK, Running, Born, Creator!Complete, Creator!Fits, FormTypes
  <2>8. SagasOK'
    BY <2>1, <2>5, <2>7, SagaAside DEF SagasOK
  <2>9. BlocksApart' /\ BlocksWhole'
    BY <2>1, <2>2, <2>3, <2>5, WholeAside DEF Born
  <2> QED
    BY <2>1, <2>6, <2>8, <2>9, FieldsAside DEF CreatorInv
<1>4. CASE Creator!Reload
  <2>1. /\ form' = Creator!EmptyForm /\ UNCHANGED <<faults, builds>>
        /\ changes < MaxChanges /\ changes' = changes + 1
        /\ UNCHANGED <<CreatorData, active, switched>>
        /\ saga' = [s \in Sagas |-> IF saga[s].at = "idle" THEN Creator!NoSaga ELSE Creator!Ended]
        /\ modals' = <<>> /\ bare' = bare \cup Creator!Creating
    BY <1>4 DEF Creator!Reload, Creator!Others
  <2>2. saga' \in [Sagas -> Creator!Runs] /\ \A s \in Sagas : saga'[s].at \in {"idle", "done"}
    BY <2>1 DEF Creator!NoSaga, Creator!Ended, Creator!Runs, Creator!Chosen
  <2>3. Creator!Creating \subseteq Blocks
    BY DEF Creator!Creating
  <2>4. CreatorOK'
    BY <1>0, <2>1, <2>2, <2>3 DEF CreatorOK, CreatorStacks, Creator!CreatorAssumption
  <2>5. FormFits'
    BY <2>1, EmptyFits
  <2>6. SagasOK'
    BY <2>2, SagaOver DEF SagasOK, Running, Born
  <2>7. \A s \in Sagas : saga[s].at \in Born => saga[s].block \in bare'
    BY <2>1 DEF Creator!Creating, CreatorInv, SagasOK, SagaOK
  <2>8. BlocksApart' /\ BlocksWhole'
    BY <2>1, <2>2, <2>7, WholeAside DEF Born
  <2> QED
    BY <2>4, <2>5, <2>6, <2>8 DEF CreatorInv
<1>5. CASE \E t \in Types : Creator!ClickType(t)
  <2>1. PICK t \in Types : Creator!Edited([form EXCEPT !.type = t, !.framework = "none"])
    BY <1>5 DEF Creator!ClickType
  <2> QED
    BY <1>0, <2>1, FormFills DEF FormTypes, Creator!Chosen
<1>6. CASE \E f \in Creator!AllFrameworks : Creator!ClickFramework(f)
  <2>1. PICK f \in Creator!AllFrameworks : Creator!ClickFramework(f)
    BY <1>6
  <2>2. CASE form.framework = f
    <3>1. Creator!Edited([form EXCEPT !.framework = "none"])
      BY <2>1, <2>2 DEF Creator!ClickFramework
    <3> QED
      BY <1>0, <3>1, FormFills DEF FormTypes, Creator!Chosen
  <2>3. CASE form.framework # f
    <3>1. /\ Creator!Edited([form EXCEPT !.framework = f, !.port = DefaultPort[f]])
          /\ f \in Frameworks[form.type]
      BY <2>1, <2>3 DEF Creator!ClickFramework
    <3>2. DefaultPort[f] \in Ports
      BY DEF Creator!CreatorAssumption
    <3> QED
      BY <1>0, <3>1, <3>2, FormFills DEF FormTypes, Creator!Chosen
  <2> QED
    BY <2>2, <2>3
<1>7. CASE \E p \in Ports : Creator!TypePort(p)
  <2>1. PICK p \in Ports : form.framework = "none" /\ Creator!Edited([form EXCEPT !.port = p])
    BY <1>7 DEF Creator!TypePort
  <2> QED
    BY <1>0, <2>1, FormFills DEF FormTypes
<1>8. CASE \E given \in BOOLEAN : Creator!TypeText(given)
  <2>1. PICK given \in BOOLEAN : Creator!Edited([form EXCEPT !.filled = given])
    BY <1>8 DEF Creator!TypeText
  <2> QED
    BY <1>0, <2>1, FormFills DEF FormTypes
<1> QED
  BY <1>1, <1>2, <1>3, <1>4, <1>5, <1>6, <1>7, <1>8 DEF Creator!UserStep

-----------------------------------------------------------------------------
(* handleCreateBlock *)

\* One run goes a step: the others keep their blocks.
LEMMA OneGoes ==
    ASSUME CreatorInv, NEW s \in Sagas, NEW x \in Creator!Runs,
           saga' = [saga EXCEPT ![s] = x]
    PROVE  /\ saga' \in [Sagas -> Creator!Runs] /\ saga'[s] = x
           /\ \A r \in Sagas \ {s} : saga'[r] = saga[r]
BY DEF CreatorInv, CreatorOK

\* A run goes on with its block, or leaves it bare, and the server is as it was.
LEMMA GoesOn ==
    ASSUME CreatorInv, NEW s \in Sagas, NEW x \in Creator!Runs,
           saga' = [saga EXCEPT ![s] = x], UNCHANGED <<CreatorData, active, switched, form, builds>>,
           modals' \in CreatorStacks, changes' \in 0..MaxChanges, faults' \in 0..MaxFaults,
           bare' \subseteq Blocks, bare \subseteq bare',
           SagaOK(s)',
           x.at \in Born => saga[s].at \in Born /\ x.block = saga[s].block,
           saga[s].at \in Born => x.at \in Born \/ saga[s].block \in bare'
    PROVE  CreatorInv'
<1>1. /\ saga' \in [Sagas -> Creator!Runs] /\ saga'[s] = x
      /\ \A r \in Sagas \ {s} : saga'[r] = saga[r]
  BY OneGoes
<1>2. CreatorOK'
  BY <1>1 DEF CreatorInv, CreatorOK, CreatorData
<1>3. SagasOK'
  BY <1>1, SagaAside DEF SagasOK
<1>4. BlocksApart' /\ BlocksWhole'
  BY <1>1, WholeAside
<1> QED
  BY <1>2, <1>3, <1>4, FieldsAside DEF CreatorInv

\* It throws: it keeps its place under the modal, or is over.
LEMMA ThrowsAway ==
    ASSUME CreatorInv, NEW s \in Sagas, Creator!Throw(s)
    PROVE  \E x \in Creator!Runs : /\ saga' = [saga EXCEPT ![s] = x]
                                   /\ x.at \notin Running /\ SagaOK(s)'
<1>0. saga[s] \in Creator!Runs /\ saga \in [Sagas -> Creator!Runs]
  BY DEF CreatorInv, CreatorOK
<1> DEFINE x == IF saga[s].here THEN [saga[s] EXCEPT !.at = "thrown"] ELSE Creator!Ended
<1>1. saga' = [saga EXCEPT ![s] = x]
  BY <1>0 DEF Creator!Throw
<1>2. [saga[s] EXCEPT !.at = "thrown"] \in Creator!Runs
      /\ [saga[s] EXCEPT !.at = "thrown"].at = "thrown"
  BY <1>0 DEF Creator!Runs
<1>3. x \in Creator!Runs /\ x.at \in {"thrown", "done"}
  BY <1>2, EndedRuns
<1> HIDE DEF x
<1>4. saga'[s] = x
  BY <1>0, <1>1
<1>5. x.at \notin Running
  BY <1>3 DEF Running, Born
<1> QED
  BY <1>1, <1>3, <1>4, <1>5, SagaOver

LEMMA SagaSteps ==
    ASSUME Creator!CreatorAssumption, CreatorInv, NEW s \in Sagas,
           Creator!SagaStep(s) \/ Creator!SagaFails(s) \/ Creator!CopyFails(s)
    PROVE  CreatorInv'
<1> USE DEF Creator!At, Creator!Goto, Creator!Fault, Creator!server, Creator!net, Creator!history
<1>0. /\ CreatorOK /\ SagaOK(s) /\ SagasOK /\ BlocksApart /\ BlocksWhole
      /\ saga[s] \in Creator!Runs /\ saga \in [Sagas -> Creator!Runs]
  BY DEF CreatorInv, SagasOK, CreatorOK
<1>1. CASE Creator!ReadApplication(s)
  <2> DEFINE x == [saga[s] EXCEPT !.at = "create", !.version = active]
  <2>1. /\ UNCHANGED <<CreatorData, active, switched, form, builds, modals, changes, faults, bare>>
        /\ saga[s].at = "application"
        /\ saga' = [saga EXCEPT ![s] = x]
    BY <1>0, <1>1 DEF Creator!ReadApplication, CreatorData
  <2>2. x \in Creator!Runs /\ x.at = "create" /\ x.version = active
        /\ x.port = saga[s].port /\ x.framework = saga[s].framework
    BY <1>0 DEF CreatorOK, Creator!Runs
  <2> HIDE DEF x
  <2>3. SagaOK(s)'
    BY <1>0, <2>1, <2>2, OneGoes DEF SagaOK, Running, Born, CreatorOK, Creator!Fits
  <2> QED
    BY <1>0, <2>1, <2>2, <2>3, GoesOn DEF CreatorOK, Born
<1>2. CASE \E b \in Blocks : Creator!CreateRow(s, b)
  <2>0. PICK b \in Blocks : Creator!CreateRow(s, b)
    BY <1>2
  <2> DEFINE x == [saga[s] EXCEPT !.at = "wait", !.block = b]
  <2>1. /\ UNCHANGED <<form, modals, changes, faults, builds>>
        /\ UNCHANGED <<active, template, config, puts, bare>>
        /\ saga[s].at = "create" /\ row[b] = "unborn"
        /\ row' = [row EXCEPT ![b] = "ready"]
        /\ home' = [home EXCEPT ![b] = saga[s].version]
        /\ saga' = [saga EXCEPT ![s] = x]
        /\ switched' = IF active = saga[s].version THEN switched ELSE switched \cup {b}
    BY <1>0, <2>0 DEF Creator!CreateRow, Creator!Rows!Insert
  <2>2. x \in Creator!Runs /\ x.at = "wait" /\ x.version = saga[s].version /\ x.block = b
        /\ x.port = saga[s].port /\ x.framework = saga[s].framework
    BY <1>0 DEF Creator!Runs
  <2> HIDE DEF x
  <2>3. saga' \in [Sagas -> Creator!Runs] /\ saga'[s] = x
        /\ \A r \in Sagas \ {s} : saga'[r] = saga[r]
    BY <2>1, <2>2, OneGoes
  <2>4. /\ saga[s].version \in AppVersions /\ "ready" \in Statuses /\ "unborn" \notin Statuses
        /\ row'[b] = "ready" /\ home'[b] = saga[s].version
        /\ \A c \in Blocks \ {b} : row'[c] = row[c] /\ home'[c] = home[c]
        /\ row' \in [Blocks -> Statuses \cup {"unborn", "deleted"}]
        /\ home' \in [Blocks -> AppVersions \cup {"none"}]
        /\ switched \subseteq switched' /\ switched' \subseteq Blocks
    BY <1>0, <2>1 DEF SagaOK, Born, CreatorOK, Creator!CreatorAssumption
  <2>5. CreatorOK'
    BY <1>0, <2>1, <2>3, <2>4 DEF CreatorOK
  <2>6. ~ Configured(b) /\ template[b] = {} /\ \A c : Configured(c)' <=> Configured(c)
    BY <1>0, <2>1 DEF BlocksWhole, BlockWhole, Configured, Creator!NoConfig
  <2>7. SagaOK(s)'
    <3>1. Creator!Fits(x) /\ x.port \in Ports \ {0}
      BY <1>0, <2>1, <2>2 DEF SagaOK, Running, Born, Creator!Fits
    <3>2. active' = x.version \/ b \in switched'
      BY <2>1, <2>2
    <3> QED
      BY <2>1, <2>2, <2>3, <2>4, <2>6, <3>1, <3>2 DEF SagaOK, Running, Born, Creator!Fits
  <2>8. ASSUME NEW r \in Sagas \ {s}
        PROVE  SagaOK(r)' /\ (saga'[r].at \in Born => saga'[r].block # b)
    <3>1. SagaOK(r) /\ saga'[r] = saga[r]
      BY <1>0, <2>3 DEF SagasOK
    <3>2. saga[r].at \in Born => saga[r].block # b
      BY <2>1, <3>1 DEF SagaOK
    <3> QED
      BY <2>1, <2>4, <2>6, <3>1, <3>2 DEF SagaOK, Running, Born, Creator!Fits
  <2>9. SagasOK' /\ BlocksApart'
    BY <1>0, <2>2, <2>3, <2>7, <2>8 DEF SagasOK, BlocksApart
  <2>10. BlocksWhole'
    <3> SUFFICES ASSUME NEW c \in Blocks PROVE BlockWhole(c)'
      BY DEF BlocksWhole
    <3>1. BlockWhole(c)
      BY <1>0 DEF BlocksWhole
    <3>2. CASE c = b
      <4>1. config[c] = Creator!NoConfig /\ \A p \in puts : p.block # c
        BY <2>6, <3>2 DEF Configured
      <4>2. BeingMade(c)'
        BY <2>2, <2>3, <3>2 DEF BeingMade, Born
      <4> QED
        BY <2>1, <2>4, <2>6, <3>2, <4>1, <4>2 DEF BlockWhole, Creator!NoConfig
    <3>3. CASE c # b
      <4>1. BeingMade(c) => BeingMade(c)'
        BY <2>1, <2>3 DEF BeingMade, Born
      <4>2. \A q : Made(q, c)' <=> Made(q, c)
        BY <2>1, <2>4, <3>3 DEF Made, Creator!Fits
      <4> QED
        BY <2>1, <2>4, <2>6, <3>1, <3>3, <4>1, <4>2 DEF BlockWhole, Creator!NoConfig
    <3> QED
      BY <3>2, <3>3
  <2> QED
    BY <2>1, <2>5, <2>9, <2>10, FieldsAside DEF CreatorInv
<1>3. CASE Creator!CreateRefused(s)
  <2>1. /\ UNCHANGED <<CreatorData, active, switched, form, builds, changes, faults, bare>>
        /\ saga[s].at = "create" /\ saga' = [saga EXCEPT ![s] = Creator!Ended]
        /\ modals' = IF saga[s].here THEN Creator!Closed(modals, {"creating"}) ELSE modals
    BY <1>3 DEF Creator!CreateRefused, CreatorData
  <2>2. modals' \in CreatorStacks
    BY <1>0, <2>1, CreatorMoves DEF CreatorOK
  <2>3. SagaOK(s)'
    BY <2>1, EndedRuns, OneGoes, SagaOver DEF Running, Born
  <2> QED
    BY <1>0, <2>1, <2>2, <2>3, EndedRuns, GoesOn DEF CreatorOK, Born
<1>4. CASE Creator!ReadBlock(s)
  <2>1. /\ UNCHANGED <<CreatorData, active, switched, form, builds, modals, changes, faults>>
        /\ saga[s].at = "wait"
    BY <1>4 DEF Creator!ReadBlock, CreatorData
  <2>2. CASE Creator!Rows!Exists(saga[s].block)
    <3> DEFINE step == IF saga[s].framework = "none" THEN "config" ELSE "template"
               x == [saga[s] EXCEPT !.at = step]
    <3>1. saga' = [saga EXCEPT ![s] = x] /\ bare' = bare
      BY <1>0, <1>4, <2>2 DEF Creator!ReadBlock
    <3>2. x \in Creator!Runs /\ x.at = step /\ x.version = saga[s].version
          /\ x.block = saga[s].block /\ x.port = saga[s].port /\ x.framework = saga[s].framework
      BY <1>0 DEF Creator!Runs
    <3>3. step \in {"config", "template"} /\ (step = "template" => saga[s].framework # "none")
      OBVIOUS
    <3>4. saga[s].framework \in Creator!AllFrameworks \cup {"none"}
      BY <1>0 DEF Creator!Runs, Creator!Chosen
    <3> HIDE DEF x, step
    <3>5. \A c : Configured(c)' <=> Configured(c)
      BY <2>1 DEF Configured, CreatorData, Creator!NoConfig
    <3>6. saga'[s] = x
      BY <3>1, <3>2, OneGoes
    <3>7. SagaOK(s)'
      BY <1>0, <2>1, <3>2, <3>3, <3>4, <3>5, <3>6
         DEF SagaOK, Running, Born, CreatorData, Creator!Fits
    <3> QED
      BY <1>0, <2>1, <3>1, <3>2, <3>3, <3>7, GoesOn DEF CreatorOK, Born
  <2>3. CASE ~ Creator!Rows!Exists(saga[s].block)
    <3>1. Creator!Throw(s) /\ bare' = bare \cup {saga[s].block}
      BY <1>4, <2>3 DEF Creator!ReadBlock
    <3>2. saga[s].block \in Blocks
      BY <1>0, <2>1 DEF SagaOK, Born
    <3>3. PICK x \in Creator!Runs : /\ saga' = [saga EXCEPT ![s] = x]
                                    /\ x.at \notin Running /\ SagaOK(s)'
      BY <3>1, ThrowsAway
    <3> QED
      BY <1>0, <2>1, <3>1, <3>2, <3>3, GoesOn DEF CreatorOK, Running
  <2> QED
    BY <2>2, <2>3
<1>5. CASE Creator!ReadAgain(s)
  <2> DEFINE x == [saga[s] EXCEPT !.at = "copy", !.copyTo = active]
  <2>1. /\ UNCHANGED <<CreatorData, active, switched, form, builds, modals, changes, faults, bare>>
        /\ saga[s].at = "template"
        /\ saga' = [saga EXCEPT ![s] = x]
    BY <1>0, <1>5 DEF Creator!ReadAgain, CreatorData
  <2>2. x \in Creator!Runs /\ x.at = "copy" /\ x.version = saga[s].version /\ x.copyTo = active
        /\ x.block = saga[s].block /\ x.port = saga[s].port /\ x.framework = saga[s].framework
    BY <1>0 DEF CreatorOK, Creator!Runs
  <2> HIDE DEF x
  <2>3. \A c : Configured(c)' <=> Configured(c)
    BY <2>1 DEF Configured, CreatorData, Creator!NoConfig
  <2>4. saga'[s] = x
    BY <2>1, <2>2, OneGoes
  <2>5. SagaOK(s)'
    BY <1>0, <2>1, <2>2, <2>3, <2>4 DEF SagaOK, Running, Born, CreatorOK, CreatorData, Creator!Fits
  <2> QED
    BY <1>0, <2>1, <2>2, <2>5, GoesOn DEF CreatorOK, Born
<1>6. CASE Creator!CopyTemplate(s)
  <2> DEFINE x == [saga[s] EXCEPT !.at = "config"]
             b == saga[s].block
             t == [version |-> saga[s].copyTo, framework |-> saga[s].framework]
  <2>1. /\ UNCHANGED <<form, modals, changes, faults, builds>>
        /\ UNCHANGED <<row, home, active, config, puts, switched, bare>>
        /\ saga[s].at = "copy"
        /\ saga' = [saga EXCEPT ![s] = x]
        /\ template' = [template EXCEPT ![b] = @ \cup {t}]
    BY <1>0, <1>6 DEF Creator!CopyTemplate
  <2>2. x \in Creator!Runs /\ x.at = "config" /\ x.version = saga[s].version
        /\ x.block = b /\ x.port = saga[s].port /\ x.framework = saga[s].framework
    BY <1>0 DEF Creator!Runs
  <2>3. /\ b \in Blocks /\ ~ Configured(b) /\ row[b] # "unborn" /\ home[b] = saga[s].version
        /\ saga[s].version \in AppVersions
        /\ saga[s].copyTo = saga[s].version \/ b \in switched
        /\ \A u \in template[b] : u.framework = saga[s].framework
    BY <1>0, <2>1 DEF SagaOK, Born
  <2>4. t \in [version : AppVersions, framework : Creator!AllFrameworks]
        /\ t.version = saga[s].copyTo /\ t.framework = saga[s].framework
    BY <1>0, <2>1 DEF SagaOK
  <2> HIDE DEF x, b, t
  <2>5. /\ template'[b] = template[b] \cup {t}
        /\ \A c \in Blocks \ {b} : template'[c] = template[c]
        /\ template' \in [Blocks -> SUBSET [version : AppVersions,
                                            framework : Creator!AllFrameworks]]
    BY <1>0, <2>1, <2>3, <2>4 DEF CreatorOK
  <2>6. saga' \in [Sagas -> Creator!Runs] /\ saga'[s] = x
        /\ \A r \in Sagas \ {s} : saga'[r] = saga[r]
    BY <2>1, <2>2, OneGoes
  <2>7. CreatorOK'
    BY <1>0, <2>1, <2>5, <2>6 DEF CreatorOK
  <2>8. \A c : Configured(c)' <=> Configured(c)
    BY <2>1 DEF Configured, Creator!NoConfig
  <2>9. SagaOK(s)'
    <3>1. Creator!Fits(x) /\ x.port \in Ports \ {0}
      BY <1>0, <2>1, <2>2 DEF SagaOK, Running, Born, Creator!Fits
    <3>2. \A u \in template'[b] : u.framework = x.framework
      BY <2>2, <2>3, <2>4, <2>5
    <3> QED
      BY <2>1, <2>2, <2>3, <2>6, <2>8, <3>1, <3>2 DEF SagaOK, Running, Born, Creator!Fits
  <2>10. ASSUME NEW r \in Sagas \ {s}
         PROVE  SagaOK(r)' /\ (saga'[r].at \in Born => saga'[r].block # b)
    <3>1. SagaOK(r) /\ saga'[r] = saga[r]
      BY <1>0, <2>6 DEF SagasOK
    <3>2. saga[r].at \in Born => saga[r].block # b
      BY <1>0, <2>1 DEF BlocksApart, Born, b
    <3>3. saga[r].at \in Born => template'[saga[r].block] = template[saga[r].block]
      BY <2>5, <3>1, <3>2 DEF SagaOK
    <3> QED
      BY <2>1, <2>8, <3>1, <3>2, <3>3 DEF SagaOK, Running, Born, Creator!Fits
  <2>11. SagasOK' /\ BlocksApart'
    BY <1>0, <2>2, <2>6, <2>9, <2>10 DEF SagasOK, BlocksApart
  <2>12. BlocksWhole'
    <3> SUFFICES ASSUME NEW c \in Blocks PROVE BlockWhole(c)'
      BY DEF BlocksWhole
    <3>1. BlockWhole(c)
      BY <1>0 DEF BlocksWhole
    <3>0. BeingMade(c) => BeingMade(c)'
      BY <2>1, <2>2, <2>6 DEF BeingMade, Born, b
    <3>2. CASE c = b
      <4>1. config[c] = Creator!NoConfig /\ \A p \in puts : p.block # c
        BY <2>3, <3>2 DEF Configured
      <4>2. \A u \in template'[c] : u.version = home[c] \/ c \in switched
        BY <2>3, <2>4, <2>5, <3>1, <3>2 DEF BlockWhole
      <4> QED
        BY <2>1, <2>3, <2>8, <3>0, <3>1, <3>2, <4>1, <4>2 DEF BlockWhole, Creator!NoConfig
    <3>3. CASE c # b
      <4>1. \A q : Made(q, c)' <=> Made(q, c)
        BY <2>1, <2>5, <3>3 DEF Made, Creator!Fits
      <4> QED
        BY <2>1, <2>5, <2>8, <3>0, <3>1, <3>3, <4>1 DEF BlockWhole, Creator!NoConfig
    <3> QED
      BY <3>2, <3>3
  <2> QED
    BY <2>1, <2>7, <2>11, <2>12, FieldsAside DEF CreatorInv
<1>7. CASE Creator!CopyFails(s)
  <2> DEFINE x == [saga[s] EXCEPT !.at = "config"]
  <2>1. /\ UNCHANGED <<CreatorData, active, switched, form, builds, modals, changes, bare>>
        /\ saga[s].at = "copy" /\ faults < MaxFaults /\ faults' = faults + 1
        /\ saga' = [saga EXCEPT ![s] = x]
    BY <1>0, <1>7 DEF Creator!CopyFails, CreatorData
  <2>2. x \in Creator!Runs /\ x.at = "config" /\ x.version = saga[s].version
        /\ x.block = saga[s].block /\ x.port = saga[s].port /\ x.framework = saga[s].framework
    BY <1>0 DEF Creator!Runs
  <2> HIDE DEF x
  <2>3. \A c : Configured(c)' <=> Configured(c)
    BY <2>1 DEF Configured, CreatorData, Creator!NoConfig
  <2>4. saga'[s] = x
    BY <2>1, <2>2, OneGoes
  <2>5. SagaOK(s)'
    BY <1>0, <2>1, <2>2, <2>3, <2>4 DEF SagaOK, Running, Born, CreatorData, Creator!Fits
  <2>6. faults' \in 0..MaxFaults
    BY <1>0, <2>1 DEF CreatorOK, Creator!CreatorAssumption
  <2> QED
    BY <1>0, <2>1, <2>2, <2>5, <2>6, GoesOn DEF CreatorOK, Born
<1>8. CASE Creator!Configure(s)
  <2> DEFINE b == saga[s].block
             p == [block |-> b, version |-> saga[s].version,
                   framework |-> saga[s].framework, port |-> saga[s].port]
  <2>1. /\ UNCHANGED <<changes, faults>>
        /\ UNCHANGED <<row, home, active, template, config, switched, bare>>
        /\ form' = Creator!EmptyForm
        /\ saga[s].at = "config"
        /\ puts' = puts \cup {p}
        /\ builds' = builds \cup {b}
        /\ modals' = Creator!Closed(modals, {"creator", "creating"})
        /\ saga' = [r \in Sagas |-> IF r = s \/ saga[r].at = "thrown" THEN Creator!Ended
                                    ELSE [saga[r] EXCEPT !.here = FALSE]]
    BY <1>8 DEF Creator!Configure, Creator!ConfigureFor
  <2>2. modals' = <<>>
    BY <1>0, <2>1, CreatorMoves DEF CreatorOK
  <2>3. /\ b \in Blocks /\ row[b] # "unborn" /\ home[b] = saga[s].version
        /\ saga[s].version \in AppVersions /\ saga[s].port \in Ports /\ saga[s].port # 0
        /\ Creator!Fits(saga[s]) /\ \A t \in template[b] : t.framework = saga[s].framework
    BY <1>0, <2>1 DEF SagaOK, Running, Born
  <2>4. /\ p \in [block : Blocks, version : AppVersions, framework : Creator!Chosen, port : Ports]
        /\ p.block = b /\ p.version = saga[s].version
        /\ p.framework = saga[s].framework /\ p.port = saga[s].port
    BY <1>0, <2>3 DEF Creator!Runs
  <2> HIDE DEF p, b
  <2>h. \A r \in Creator!Runs :
            /\ [r EXCEPT !.here = FALSE] \in Creator!Runs
            /\ [r EXCEPT !.here = FALSE].at = r.at /\ [r EXCEPT !.here = FALSE].block = r.block
            /\ [r EXCEPT !.here = FALSE].version = r.version
            /\ [r EXCEPT !.here = FALSE].copyTo = r.copyTo
            /\ [r EXCEPT !.here = FALSE].framework = r.framework
            /\ [r EXCEPT !.here = FALSE].port = r.port
    BY DEF Creator!Runs
  <2>5. /\ saga' \in [Sagas -> Creator!Runs] /\ saga'[s].at = "done"
        /\ \A r \in Sagas \ {s} :
             \/ saga'[r].at = "done" /\ saga[r].at = "thrown"
             \/ /\ saga'[r].at = saga[r].at /\ saga'[r].block = saga[r].block
                /\ saga'[r].version = saga[r].version /\ saga'[r].copyTo = saga[r].copyTo
                /\ saga'[r].framework = saga[r].framework /\ saga'[r].port = saga[r].port
    BY <1>0, <2>1, <2>h, EndedRuns
  <2>6. CreatorOK'
    BY <1>0, <2>1, <2>2, <2>3, <2>4, <2>5 DEF CreatorOK, CreatorStacks
  <2>7. \A c : Configured(c)' <=> Configured(c) \/ c = b
    BY <2>1, <2>4 DEF Configured, Creator!NoConfig
  <2>8. SagaOK(s)'
    BY <2>5, SagaOver DEF Running, Born
  <2>9. ASSUME NEW r \in Sagas \ {s}
        PROVE  SagaOK(r)'
    <3>1. SagaOK(r)
      BY <1>0 DEF SagasOK
    <3>2. CASE saga'[r].at = "done"
      BY <3>2, SagaOver DEF Running, Born
    <3>3. CASE saga'[r].at # "done"
      <4>1. /\ saga'[r].at = saga[r].at /\ saga'[r].block = saga[r].block
            /\ saga'[r].version = saga[r].version /\ saga'[r].copyTo = saga[r].copyTo
            /\ saga'[r].framework = saga[r].framework /\ saga'[r].port = saga[r].port
        BY <2>5, <3>3
      <4>2. saga[r].at \in Born => saga[r].block # b
        BY <1>0, <2>1 DEF BlocksApart, Born, b
      <4> QED
        BY <2>1, <2>7, <3>1, <4>1, <4>2 DEF SagaOK, Running, Born, Creator!Fits
    <3> QED
      BY <3>2, <3>3
  <2>10. SagasOK'
    BY <2>8, <2>9 DEF SagasOK
  <2>11. BlocksApart'
    BY <1>0, <2>5 DEF BlocksApart, Born
  <2>12. BlocksWhole'
    <3> SUFFICES ASSUME NEW c \in Blocks PROVE BlockWhole(c)'
      BY DEF BlocksWhole
    <3>1. BlockWhole(c)
      BY <1>0 DEF BlocksWhole
    <3>2. \A q : Made(q, c)' <=> Made(q, c)
      BY <2>1 DEF Made, Creator!Fits
    <3>3. c = b => Made(p, c)
      BY <2>3, <2>4 DEF Made, Creator!Fits
    <3>4. BeingMade(c) /\ c # b => BeingMade(c)'
      BY <2>1, <2>5 DEF BeingMade, Born, b
    <3>5. row[c] = "unborn" => c # b
      BY <2>3
    <3> QED
      BY <2>1, <2>4, <2>7, <3>1, <3>2, <3>3, <3>4, <3>5 DEF BlockWhole, Creator!NoConfig
  <2> QED
    BY <2>1, <2>6, <2>10, <2>11, <2>12, EmptyFits DEF CreatorInv
<1>9. CASE Creator!SagaFails(s)
  <2>1. /\ UNCHANGED <<CreatorData, active, switched, form, builds, modals, changes>>
        /\ faults < MaxFaults /\ faults' = faults + 1
        /\ Creator!Throw(s)
        /\ bare' = bare \cup ({saga[s].block} \cap Blocks)
    BY <1>9 DEF Creator!SagaFails, CreatorData
  <2>2. PICK x \in Creator!Runs : /\ saga' = [saga EXCEPT ![s] = x]
                                  /\ x.at \notin Running /\ SagaOK(s)'
    BY <2>1, ThrowsAway
  <2>3. faults' \in 0..MaxFaults /\ modals' \in CreatorStacks /\ changes' \in 0..MaxChanges
        /\ bare' \subseteq Blocks /\ bare \subseteq bare'
    BY <1>0, <2>1 DEF CreatorOK, Creator!CreatorAssumption
  <2>4. saga[s].at \in Born => saga[s].block \in bare'
    BY <1>0, <2>1 DEF SagaOK
  <2> QED
    BY <2>1, <2>2, <2>3, <2>4, GoesOn DEF Running
<1> QED
  BY <1>1, <1>2, <1>3, <1>4, <1>5, <1>6, <1>7, <1>8, <1>9 DEF Creator!SagaStep

-----------------------------------------------------------------------------
(* The server, and what was not awaited *)

\* The row of a block that exists changes.
LEMMA RowMoves ==
    ASSUME Creator!CreatorAssumption, CreatorInv, NEW b \in Blocks,
           NEW x \in Statuses \cup {"deleted"}, row[b] \in Statuses,
           row' = [row EXCEPT ![b] = x],
           UNCHANGED <<home, active, template, config, puts, saga, switched, bare>>
    PROVE  SagasOK' /\ BlocksApart' /\ BlocksWhole'
<1>0. CreatorOK /\ SagasOK /\ BlocksApart /\ BlocksWhole
  BY DEF CreatorInv
<1>1. \A c \in Blocks : /\ row'[c] = "unborn" <=> row[c] = "unborn"
                        /\ row'[c] \in Statuses => row[c] \in Statuses
  BY <1>0 DEF CreatorOK, Creator!CreatorAssumption
<1>2. \A c : Configured(c)' <=> Configured(c)
  BY DEF Configured, Creator!NoConfig
<1>3. SagasOK'
  BY <1>0, <1>1, <1>2 DEF SagasOK, SagaOK, Creator!Fits
<1>4. BlocksApart'
  BY <1>0 DEF BlocksApart
<1>5. BlocksWhole'
  <2> SUFFICES ASSUME NEW c \in Blocks PROVE BlockWhole(c)'
    BY DEF BlocksWhole
  <2>1. BlockWhole(c)
    BY <1>0 DEF BlocksWhole
  <2>2. \A q : Made(q, c)' <=> Made(q, c)
    BY DEF Made, Creator!Fits
  <2>3. BeingMade(c)' <=> BeingMade(c)
    BY DEF BeingMade
  <2> QED
    BY <1>1, <1>2, <2>1, <2>2, <2>3 DEF BlockWhole, Creator!NoConfig
<1> QED
  BY <1>3, <1>4, <1>5

\* An upload arrives or is lost: no run is about its block any more.
LEMMA PutEnds ==
    ASSUME CreatorInv, NEW p \in puts, puts' = puts \ {p},
           config' \in [Blocks -> [version : AppVersions, framework : Creator!Chosen, port : Ports]
                                  \cup {Creator!NoConfig}],
           \A c \in Blocks \ {p.block} : config'[c] = config[c],
           UNCHANGED <<row, home, active, template, saga, switched>>
    PROVE  /\ SagasOK' /\ BlocksApart'
           /\ \A c \in Blocks : c # p.block => (Configured(c)' <=> Configured(c))
<1>0. CreatorOK /\ SagasOK /\ BlocksApart
  BY DEF CreatorInv
<1>1. \A c \in Blocks : c # p.block => (Configured(c)' <=> Configured(c))
  BY DEF Configured, Creator!NoConfig
<1>2. ASSUME NEW s \in Sagas
      PROVE  SagaOK(s)'
  <2>1. SagaOK(s)
    BY <1>0 DEF SagasOK
  <2>2. saga[s].at \in Born => saga[s].block # p.block
    BY <2>1 DEF SagaOK, Configured
  <2> QED
    BY <1>1, <2>1, <2>2 DEF SagaOK, Creator!Fits
<1>3. BlocksApart'
  BY <1>0 DEF BlocksApart
<1> QED
  BY <1>1, <1>2, <1>3 DEF SagasOK

LEMMA OtherSteps ==
    ASSUME Creator!CreatorAssumption, CreatorInv,
           \/ \E b \in Blocks : Creator!RowChanges(b)
           \/ \E v \in AppVersions : Creator!ActivateVersion(v)
           \/ \E p \in puts : Creator!PutArrives(p) \/ Creator!PutLost(p)
           \/ \E b \in builds : Creator!BuildArrives(b)
    PROVE  CreatorInv'
<1> USE DEF Creator!Others, Creator!Fault, Creator!server, Creator!net, Creator!history
<1>0. CreatorOK /\ SagasOK /\ BlocksApart /\ BlocksWhole
  BY DEF CreatorInv
<1>1. CASE \E b \in Blocks : Creator!RowChanges(b)
  <2>1. PICK b \in Blocks : Creator!RowChanges(b)
    BY <1>1
  <2>2. /\ changes < MaxChanges /\ changes' = changes + 1
        /\ UNCHANGED <<home, active, template, config, puts, saga, switched, bare>>
        /\ UNCHANGED <<builds, faults, form, modals>>
    BY <2>1 DEF Creator!RowChanges
  <2>3. row[b] \in Statuses /\ row' = [row EXCEPT ![b] = "deleted"]
    BY <2>1 DEF Creator!RowChanges, Creator!Rows!Delete, Creator!Rows!Exists
  <2>4. CreatorOK'
    BY <1>0, <2>2, <2>3 DEF CreatorOK, Creator!CreatorAssumption
  <2> QED
    BY <2>2, <2>3, <2>4, RowMoves, FieldsAside DEF CreatorInv
<1>2. CASE \E v \in AppVersions : Creator!ActivateVersion(v)
  <2>1. PICK v \in AppVersions : Creator!ActivateVersion(v)
    BY <1>2
  <2>2. /\ changes < MaxChanges /\ changes' = changes + 1
        /\ active' = v /\ switched' = switched \cup Creator!Creating
        /\ UNCHANGED <<CreatorData, form, modals, saga, bare>>
        /\ UNCHANGED <<builds, faults>>
    BY <2>1 DEF Creator!ActivateVersion, CreatorData
  <2>3. Creator!Creating \subseteq Blocks
    BY DEF Creator!Creating
  <2>4. CreatorOK'
    BY <1>0, <2>2, <2>3 DEF CreatorOK, CreatorData, Creator!CreatorAssumption
  <2>5. ASSUME NEW s \in Sagas
        PROVE  SagaOK(s)'
    <3>1. SagaOK(s)
      BY <1>0 DEF SagasOK
    <3>2. saga[s].at \in Born => saga[s].block \in switched'
      BY <2>2, <3>1 DEF SagaOK, Creator!Creating
    <3>3. \A c : Configured(c)' <=> Configured(c)
      BY <2>2 DEF Configured, CreatorData, Creator!NoConfig
    <3> QED
      BY <2>2, <3>1, <3>2, <3>3 DEF SagaOK, CreatorData, Born, Creator!Fits
  <2>6. SagasOK'
    BY <2>5 DEF SagasOK
  <2>7. BlocksApart' /\ BlocksWhole'
    BY <2>2, WholeAside
  <2> QED
    BY <2>2, <2>4, <2>6, <2>7, FieldsAside DEF CreatorInv
<1>3. ASSUME NEW p \in puts, Creator!PutArrives(p)
      PROVE  CreatorInv'
  <2> DEFINE new == [version |-> p.version, framework |-> p.framework, port |-> p.port]
  <2>1. /\ config' = [config EXCEPT ![p.block] = new]
        /\ puts' = puts \ {p}
        /\ UNCHANGED <<row, home, active, template, form, modals, saga, switched, bare>>
        /\ UNCHANGED <<builds, changes, faults>>
    BY <1>3 DEF Creator!PutArrives
  <2>2. p \in [block : Blocks, version : AppVersions, framework : Creator!Chosen, port : Ports]
    BY <1>0 DEF CreatorOK
  <2>3. /\ new \in [version : AppVersions, framework : Creator!Chosen, port : Ports]
        /\ new.version = p.version /\ new.framework = p.framework /\ new.port = p.port
    BY <2>2
  <2> HIDE DEF new
  <2>4. /\ config' \in [Blocks -> [version : AppVersions, framework : Creator!Chosen, port : Ports]
                                  \cup {Creator!NoConfig}]
        /\ config'[p.block] = new /\ \A c \in Blocks \ {p.block} : config'[c] = config[c]
    BY <1>0, <2>1, <2>2, <2>3 DEF CreatorOK
  <2>5. CreatorOK'
    BY <1>0, <2>1, <2>4 DEF CreatorOK
  <2>6. /\ SagasOK' /\ BlocksApart'
        /\ \A c \in Blocks : c # p.block => (Configured(c)' <=> Configured(c))
    BY <2>1, <2>4, PutEnds
  <2>7. BlocksWhole'
    <3> SUFFICES ASSUME NEW c \in Blocks PROVE BlockWhole(c)'
      BY DEF BlocksWhole
    <3>1. BlockWhole(c)
      BY <1>0 DEF BlocksWhole
    <3>2. \A q : Made(q, c)' <=> Made(q, c)
      BY <2>1 DEF Made, Creator!Fits
    <3>3. BeingMade(c)' <=> BeingMade(c)
      BY <2>1 DEF BeingMade
    <3>4. CASE c = p.block
      <4>1. Made(p, c) /\ Configured(c)
        BY <3>1, <3>4 DEF BlockWhole, Configured
      <4>2. Made(new, c)
        BY <2>3, <4>1 DEF Made, Creator!Fits
      <4>3. config'[c] = new /\ config'[c].port # 0
        BY <2>4, <3>4, <4>2 DEF Made
      <4>4. config'[c] # Creator!NoConfig
        BY <4>3 DEF Creator!NoConfig
      <4>5. Configured(c)'
        BY <4>4 DEF Configured, Creator!NoConfig
      <4>6. Made(config'[c], c)
        BY <4>2, <4>3
      <4>7. row'[c] # "unborn"
        BY <2>1, <3>1, <4>1 DEF BlockWhole
      <4> QED
        BY <2>1, <3>1, <3>2, <4>5, <4>6, <4>7 DEF BlockWhole, Creator!NoConfig
    <3>5. CASE c # p.block
      <4>1. config'[c] = config[c] /\ (Configured(c)' <=> Configured(c))
        BY <2>4, <2>6, <3>5
      <4> QED
        BY <2>1, <3>1, <3>2, <3>3, <4>1 DEF BlockWhole, Creator!NoConfig
    <3> QED
      BY <3>4, <3>5
  <2> QED
    BY <2>1, <2>5, <2>6, <2>7, FieldsAside DEF CreatorInv
<1>4. ASSUME NEW p \in puts, Creator!PutLost(p)
      PROVE  CreatorInv'
  <2>1. /\ faults < MaxFaults /\ faults' = faults + 1
        /\ puts' = puts \ {p} /\ bare' = bare \cup {p.block}
        /\ UNCHANGED <<row, home, active, template, config, form, modals, saga, switched>>
        /\ UNCHANGED <<builds, changes>>
    BY <1>4 DEF Creator!PutLost
  <2>2. p.block \in Blocks
    BY <1>0 DEF CreatorOK
  <2>3. CreatorOK'
    BY <1>0, <2>1, <2>2 DEF CreatorOK, Creator!CreatorAssumption
  <2>4. /\ SagasOK' /\ BlocksApart'
        /\ \A c \in Blocks : c # p.block => (Configured(c)' <=> Configured(c))
    BY <1>0, <2>1, PutEnds DEF CreatorOK
  <2>5. BlocksWhole'
    <3> SUFFICES ASSUME NEW c \in Blocks PROVE BlockWhole(c)'
      BY DEF BlocksWhole
    <3>1. BlockWhole(c)
      BY <1>0 DEF BlocksWhole
    <3>2. \A q : Made(q, c)' <=> Made(q, c)
      BY <2>1 DEF Made, Creator!Fits
    <3>3. BeingMade(c)' <=> BeingMade(c)
      BY <2>1 DEF BeingMade
    <3>4. Configured(c)' => Configured(c)
      BY <2>1 DEF Configured, Creator!NoConfig
    <3> QED
      BY <2>1, <2>4, <3>1, <3>2, <3>3, <3>4 DEF BlockWhole, Creator!NoConfig
  <2> QED
    BY <2>1, <2>3, <2>4, <2>5, FieldsAside DEF CreatorInv
<1>5. ASSUME NEW b \in builds, Creator!BuildArrives(b)
      PROVE  CreatorInv'
  <2>1. /\ builds' = builds \ {b} /\ b \in Blocks
        /\ UNCHANGED <<home, active, template, config, puts, saga, switched, bare>>
        /\ UNCHANGED <<changes, faults, form, modals>>
    BY <1>0, <1>5 DEF Creator!BuildArrives, CreatorOK
  <2>2. CASE Creator!Rows!Exists(b)
    <3>1. row[b] \in Statuses /\ row' = [row EXCEPT ![b] = "pending"] /\ "pending" \in Statuses
      BY <1>5, <2>2 DEF Creator!BuildArrives, Creator!Rows!Report, Creator!Rows!Exists,
         Creator!CreatorAssumption
    <3>2. CreatorOK'
      BY <1>0, <2>1, <3>1 DEF CreatorOK
    <3> QED
      BY <2>1, <3>1, <3>2, RowMoves, FieldsAside DEF CreatorInv
  <2>3. CASE ~ Creator!Rows!Exists(b)
    <3>1. row' = row
      BY <1>5, <2>3 DEF Creator!BuildArrives
    <3>2. CreatorOK'
      BY <1>0, <2>1, <3>1 DEF CreatorOK
    <3> QED
      BY <2>1, <3>1, <3>2, SagasAside, FieldsAside DEF CreatorInv, CreatorData
  <2> QED
    BY <2>2, <2>3
<1> QED
  BY <1>1, <1>2, <1>3, <1>4, <1>5

LEMMA StepCreatorInv ==
    ASSUME Creator!CreatorAssumption, CreatorInv, [Creator!Next]_(Creator!vars)
    PROVE  CreatorInv'
<1>1. CASE UNCHANGED Creator!vars
  <2>1. /\ UNCHANGED <<CreatorData, active, switched, saga, form, modals, bare>>
        /\ UNCHANGED <<builds, changes, faults>>
    BY <1>1 DEF Creator!vars, Creator!server, Creator!net, Creator!history, CreatorData
  <2>2. CreatorOK'
    BY <2>1 DEF CreatorInv, CreatorOK, CreatorData
  <2> QED
    BY <2>1, <2>2, SagasAside, FieldsAside DEF CreatorInv
<1> QED
  BY <1>1, CreatorFormSteps, SagaSteps, OtherSteps DEF Creator!Next, Creator!Progress

LEMMA CreatorInvSays ==
    ASSUME Creator!CreatorAssumption, CreatorInv
    PROVE  Creator!CreatedWhole /\ Creator!TypeOK
<1>0. CreatorOK /\ FormFits /\ SagasOK /\ BlocksWhole
  BY DEF CreatorInv
<1>1. Creator!TemplateFits
  BY <1>0 DEF FormFits, BlocksWhole, BlockWhole, Made, Creator!TemplateFits, Creator!NoConfig
<1>2. Creator!OneVersion
  BY <1>0 DEF BlocksWhole, BlockWhole, Made, Creator!OneVersion, Creator!NoConfig
<1>3. Creator!NoBareBlock
  BY <1>0 DEF BlocksWhole, BlockWhole, BeingMade, Configured, Creator!NoBareBlock,
     Creator!Creating, Creator!Rows!Exists, Creator!NoConfig
<1>4. modals \in Creator!ModalStacks({"creator", "creating"})
  <2>1. /\ <<>> \in Screen!ModalStacks({"creator", "creating"})
        /\ <<"creator">> \in Screen!ModalStacks({"creator", "creating"})
        /\ <<"creator", "creating">> \in Screen!ModalStacks({"creator", "creating"})
    BY StacksTyped
  <2> QED
    BY <1>0, <2>1, CreatorModals DEF CreatorOK, CreatorStacks
<1>5. Creator!TypeOK
  BY <1>0, <1>4 DEF CreatorOK, FormFits, Creator!TypeOK
<1> QED
  BY <1>1, <1>2, <1>3, <1>5 DEF Creator!CreatedWhole

LEMMA CreatorAlways == Spec => [](tab = "creator" => CreatorInv)
<1> DEFINE Inv == tab = "creator" => CreatorInv
<1>0. Creator!CreatorAssumption
  BY PagesAssumption
<1>1. Init => Inv
  BY <1>0, PageStarts, InitCreatorInv
<1>2. Inv /\ [Next]_vars => Inv'
  BY <1>0, PageSteps, StepCreatorInv
<1> QED
  BY <1>1, <1>2, PTL DEF Spec

\* BlockCreatorScreen.tsx: whatever fails and whoever else works meanwhile, and
\* although the form can be edited and submitted again while a creation is under
\* way, every block is created with what its own click submitted: a framework
\* with its port and its template, and one version for its row, its template and
\* its configuration.
THEOREM CreationIsWhole == Spec => []CreatedWhole
<1> DEFINE Inv == tab = "creator" => CreatorInv
<1>0. Creator!CreatorAssumption
  BY PagesAssumption
<1>1. Inv => CreatedWhole
  BY <1>0, CreatorInvSays DEF CreatedWhole
<1> QED
  BY <1>1, CreatorAlways, PTL

-----------------------------------------------------------------------------
(* The files of a block *)

\* The type invariant, with what the kinds of requests and of uploads are about.
Edited == [volume : Mounts \cup {""}, env : SUBSET Vars]
Overlays == {"loading", "volume", "env"}
FilesOK ==
    /\ files \in [FileBlocks -> SUBSET FileNames]
    /\ config \in [FileBlocks -> Files!Configs]
    /\ tree \subseteq FileNames
    /\ conf \in Files!Configs /\ wanted \in Files!Configs
    /\ selected \in FileNames \cup {"none"} /\ text \in FileNames \cup {"none"}
    /\ modals \subseteq Overlays /\ activeTab \in {"files", "settings"}
RequestsOK ==
    /\ puts \subseteq [path : FileNames, conf : {Files!Missing}] \cup [path : {"none"}, conf : Edited]
    /\ answers \subseteq [kind : {"list", "config", "show", "text", "clear"}, names : SUBSET FileNames]
    /\ \A a \in answers : a.kind = "text" => \E p \in FileNames : a.names = {p}
CallbacksOK ==
    /\ calls \in [Calls -> [does : {"nothing", "upload", "volume", "add", "remove"},
                            with : Vars \cup Mounts \cup {"none"},
                            at : {"done", "read", "delay", "reread", "tail", "thrown"}]]
    /\ \A c \in Calls : calls[c].at = "read" =>
            \/ calls[c].does = "volume" /\ calls[c].with \in Mounts
            \/ calls[c].does \in {"add", "remove"} /\ calls[c].with \in Vars

\* One callback at a time, under the loading modal but at its end, unless a
\* click came there.
Active(c) == calls[c].at \in {"read", "delay", "reread", "tail"}
OneActive ==
    ~ rushed =>
        /\ \A c, d \in Calls : Active(c) /\ Active(d) => c = d
        /\ \A c \in Calls : Active(c) /\ calls[c].at # "tail" => "loading" \in modals

\* The configuration this window wants is there, or on its way, unless an edit
\* missed another one; and who sent it is a callback whose timer runs, which no
\* other one meets but after a rushed click.
Carries(p) == p.conf # Files!Missing
EditsThrough ==
    /\ ~ missed =>
        /\ (\A p \in puts : ~ Carries(p)) => config[Me] = wanted
        /\ \A p \in puts : Carries(p) => p.conf = wanted
    /\ ~ late /\ ~ rushed =>
        \A p \in puts : Carries(p) =>
            \E c \in Calls : calls[c].at = "delay" /\ calls[c].does # "upload"
    /\ Files!EditsApart

\* There is a configuration to edit from the start, or never.
MissingOrNot ==
    /\ config[Me] = Files!Missing <=> wanted = Files!Missing
    /\ \A p \in puts : p.conf # Files!Missing => wanted # Files!Missing
    /\ Files!ClearedWithin

\* The lists on their way are what the storage has, and one is on its way, or an
\* upload will ask for it, when what is shown is not.
Uploading == \E c \in Calls : calls[c].at = "delay" /\ calls[c].does = "upload"
ListsCurrent ==
    ~ late =>
        /\ \A a \in answers : a.kind \in {"list", "config"} => a.names = Files!Listing
        /\ (\E p \in puts : p.conf = Files!Missing) => Uploading
        /\ Files!Refreshing \/ Uploading \/ tree = Files!Listing

\* The text on its way is of the selection, and so is the one that came.
TextsSelected ==
    ~ mixed =>
        /\ \A a \in answers : a.kind = "text" => a.names = {selected}
        /\ Files!TextOfSelected

FilesInv ==
    /\ FilesOK /\ RequestsOK /\ CallbacksOK
    /\ OneActive /\ EditsThrough /\ MissingOrNot
    /\ ListsCurrent /\ TextsSelected

LEMMA InitFilesInv ==
    ASSUME Files!FilesAssumption, Files!Init
    PROVE  FilesInv
<1> USE DEF Files!Init
<1>0. Files!NewConfig # Files!Missing /\ Files!NewConfig \in Files!Configs
      /\ Files!Missing \in Files!Configs
  BY DEF Files!NewConfig, Files!Missing, Files!Configs
<1>1. FilesOK
  <2>1. config \in [FileBlocks -> Files!Configs] /\ wanted \in Files!Configs
    BY <1>0 DEF Files!FilesAssumption
  <2> QED
    BY <1>0, <2>1 DEF FilesOK, Files!FilesAssumption
<1>2. RequestsOK
  <2>1. UNION {FirstFiles[b] : b \in Extending} \in SUBSET FileNames
    BY DEF Files!FilesAssumption
  <2> QED
    BY <2>1 DEF RequestsOK, Files!Answer
<1>3. CallbacksOK /\ OneActive
  BY DEF CallbacksOK, OneActive, Active, Files!Done
<1>4. EditsThrough /\ MissingOrNot
  BY <1>0 DEF EditsThrough, Carries, Files!EditsApart, MissingOrNot, Files!ClearedWithin, Files!FilesAssumption
<1>5. ListsCurrent
  <2>1. UNION {FirstFiles[b] : b \in Extending} = Files!Listing
    BY DEF Files!Listing
  <2> QED
    BY <2>1 DEF ListsCurrent, Files!Answer, Files!Refreshing
<1>6. TextsSelected
  BY DEF TextsSelected, Files!Answer, Files!TextOfSelected
<1> QED
  BY <1>1, <1>2, <1>3, <1>4, <1>5, <1>6 DEF FilesInv

-----------------------------------------------------------------------------
(* What a step that leaves a part alone keeps *)

LEMMA ActiveAside ==
    ASSUME FilesInv, UNCHANGED <<calls, modals, rushed>>
    PROVE  CallbacksOK' /\ OneActive'
BY DEF FilesInv, CallbacksOK, OneActive, Active

LEMMA EditsAside ==
    ASSUME FilesInv, UNCHANGED <<calls, puts, wanted, rushed, missed>>, config'[Me] = config[Me],
           late => late'
    PROVE  EditsThrough'
BY DEF FilesInv, EditsThrough, Carries, Files!EditsApart, Files!Missing

LEMMA MissingAside ==
    ASSUME FilesInv, UNCHANGED <<files, config, puts, wanted>>
    PROVE  MissingOrNot'
BY DEF FilesInv, MissingOrNot, Files!ClearedWithin, Files!Missing

LEMMA ListsAside ==
    ASSUME FilesInv, UNCHANGED <<files, puts, tree>>, late => late', Uploading => Uploading',
           \A a : a.kind \in {"list", "config"} => (a \in answers' <=> a \in answers)
    PROVE  ListsCurrent'
<1>1. Files!Listing' = Files!Listing
  BY DEF Files!Listing
<1>2. Files!Refreshing' <=> Files!Refreshing
  BY DEF Files!Refreshing
<1> QED
  BY <1>1, <1>2 DEF FilesInv, ListsCurrent, Files!Missing

LEMMA TextsAside ==
    ASSUME FilesInv, UNCHANGED <<selected, text>>, mixed => mixed',
           \A a : a.kind = "text" => (a \in answers' <=> a \in answers)
    PROVE  TextsSelected'
BY DEF FilesInv, TextsSelected, Files!TextOfSelected

-----------------------------------------------------------------------------
(* The Files tab *)

LEMMA AnswerSteps ==
    ASSUME Files!FilesAssumption, FilesInv, NEW a \in answers,
           \/ Files!DeliverList(a) \/ Files!DeliverConfig(a) \/ Files!DeliverText(a)
           \/ Files!AnswerFails(a)
    PROVE  FilesInv'
<1> USE DEF Files!storage, Files!shown, Files!edits, Files!history, Files!Answer
<1>0. FilesOK /\ RequestsOK /\ ListsCurrent /\ TextsSelected
  BY DEF FilesInv
<1>a. a \in [kind : {"list", "config", "show", "text", "clear"}, names : SUBSET FileNames]
  BY <1>0 DEF RequestsOK
<1>1. CASE Files!DeliverList(a)
  <2> DEFINE b == [kind |-> "config", names |-> a.names]
  <2>1. /\ a.kind = "list" /\ answers' = (answers \ {a}) \cup {b}
        /\ UNCHANGED <<files, config, puts, tree, conf, selected, text>>
        /\ UNCHANGED <<calls, modals, wanted, late, mixed, rushed, missed, activeTab>>
    BY <1>1 DEF Files!DeliverList
  <2>2. b.kind = "config" /\ b.names = a.names
    OBVIOUS
  <2>3. FilesOK'
    BY <1>0, <2>1 DEF FilesOK, Files!Configs, Files!Missing
  <2>4. RequestsOK'
    <3>1. b \in [kind : {"list", "config", "show", "text", "clear"}, names : SUBSET FileNames]
      BY <1>a
    <3> QED
      BY <1>0, <2>1, <2>2, <3>1 DEF RequestsOK, Files!Missing
  <2> HIDE DEF b
  <2>5. ListsCurrent'
    <3>1. Files!Listing' = Files!Listing /\ Files!Refreshing' /\ (Uploading' <=> Uploading)
      BY <2>1, <2>2 DEF Files!Listing, Files!Refreshing, Uploading
    <3> QED
      BY <1>0, <2>1, <2>2, <3>1 DEF ListsCurrent, Files!Missing
  <2>6. TextsSelected'
    BY <2>1, <2>2, TextsAside
  <2> QED
    BY <2>1, <2>3, <2>4, <2>5, <2>6, ActiveAside, EditsAside, MissingAside DEF FilesInv
<1>2. CASE Files!DeliverConfig(a)
  <2>1. /\ a.kind \in {"config", "show"} /\ answers' = answers \ {a}
        /\ conf' = IF config[Me] = Files!Missing THEN conf ELSE config[Me]
        /\ tree' = IF a.kind = "show" \/ config[Me] = Files!Missing THEN tree ELSE a.names
        /\ late' = (late \/ config[Me] = Files!Missing)
        /\ UNCHANGED <<files, config, puts, selected, text>>
        /\ UNCHANGED <<calls, modals, wanted, mixed, rushed, missed, activeTab>>
    BY <1>2 DEF Files!DeliverConfig
  <2>3. FilesOK'
    <3>1. config[Me] \in Files!Configs
      BY <1>0 DEF FilesOK, Files!FilesAssumption
    <3> QED
      BY <1>0, <1>a, <2>1, <3>1 DEF FilesOK, Files!Configs, Files!Missing
  <2>4. RequestsOK'
    BY <1>0, <2>1 DEF RequestsOK, Files!Missing
  <2>5. ListsCurrent'
    <3>1. Files!Listing' = Files!Listing /\ (Uploading' <=> Uploading)
      BY <2>1 DEF Files!Listing, Uploading
    <3>2. CASE a.kind = "show"
      BY <2>1, <3>1, <3>2, ListsAside
    <3>3. CASE a.kind = "config" /\ ~ late'
      <4>1. tree' = Files!Listing'
        BY <1>0, <2>1, <3>1, <3>3 DEF ListsCurrent
      <4> QED
        BY <1>0, <2>1, <3>1, <4>1 DEF ListsCurrent, Files!Missing
    <3> QED
      BY <2>1, <3>2, <3>3 DEF ListsCurrent
  <2>6. TextsSelected'
    BY <2>1, TextsAside
  <2> QED
    BY <2>1, <2>3, <2>4, <2>5, <2>6, ActiveAside, EditsAside, MissingAside DEF FilesInv
<1>3. CASE Files!DeliverText(a)
  <2>1. /\ a.kind = "text" /\ answers' = answers \ {a}
        /\ text' = IF a.names \subseteq files[Me] THEN CHOOSE p \in a.names : TRUE ELSE "none"
        /\ UNCHANGED <<files, config, puts, tree, conf, selected>>
        /\ UNCHANGED <<calls, modals, wanted, late, mixed, rushed, missed, activeTab>>
    BY <1>3 DEF Files!DeliverText
  <2>2. PICK p \in FileNames : a.names = {p}
    BY <1>0, <2>1 DEF RequestsOK
  <2>3. text' \in {p, "none"}
    BY <2>1, <2>2
  <2>4. FilesOK'
    BY <1>0, <2>1, <2>3 DEF FilesOK, Files!Configs, Files!Missing
  <2>5. RequestsOK'
    BY <1>0, <2>1 DEF RequestsOK, Files!Missing
  <2>6. ListsCurrent'
    BY <2>1, ListsAside DEF Uploading
  <2>7. TextsSelected'
    BY <1>0, <2>1, <2>2, <2>3 DEF TextsSelected, Files!TextOfSelected
  <2> QED
    BY <2>1, <2>4, <2>5, <2>6, <2>7, ActiveAside, EditsAside, MissingAside DEF FilesInv
<1>4. CASE Files!AnswerFails(a)
  <2>1. /\ answers' = answers \ {a} /\ late' = TRUE /\ mixed' = TRUE
        /\ UNCHANGED <<files, config, puts, tree, conf, selected, text>>
        /\ UNCHANGED <<calls, modals, wanted, rushed, missed, activeTab>>
    BY <1>4 DEF Files!AnswerFails
  <2>2. FilesOK' /\ RequestsOK'
    BY <1>0, <2>1 DEF FilesOK, RequestsOK, Files!Configs, Files!Missing
  <2>3. ListsCurrent' /\ TextsSelected'
    BY <2>1 DEF ListsCurrent, TextsSelected
  <2> QED
    BY <2>1, <2>2, <2>3, ActiveAside, EditsAside, MissingAside DEF FilesInv
<1> QED
  BY <1>1, <1>2, <1>3, <1>4

LEMMA ClearSteps ==
    ASSUME Files!FilesAssumption, FilesInv, NEW a \in answers,
           Files!DeliverClear(a) \/ \E gone \in SUBSET FileNames : Files!ClearFails(a, gone)
    PROVE  FilesInv'
<1> USE DEF Files!storage, Files!shown, Files!edits, Files!history, Files!Answer
<1>0. FilesOK /\ RequestsOK /\ ListsCurrent /\ TextsSelected /\ MissingOrNot
  BY DEF FilesInv
<1>1. /\ Me \in Extending /\ Me \in FileBlocks
      /\ \A b \in FileBlocks : /\ Files!ClearConfig(b) \in {config[b], Files!Missing}
                               /\ b \notin Extending => Files!ClearConfig(b) = config[b]
      /\ Files!ClearConfig(Me) = config[Me]
  BY DEF Files!ClearConfig, Files!FilesAssumption
<1>2. ASSUME NEW gone \in SUBSET FileNames,
             files' = [b \in FileBlocks |-> IF b \in Extending THEN files[b] \ gone ELSE files[b]],
             config' \in {config, [b \in FileBlocks |-> Files!ClearConfig(b)]},
             UNCHANGED <<puts, wanted>>
      PROVE  /\ files' \in [FileBlocks -> SUBSET FileNames]
             /\ config' \in [FileBlocks -> Files!Configs] /\ config'[Me] = config[Me]
             /\ MissingOrNot'
  <2>1. files' \in [FileBlocks -> SUBSET FileNames]
    BY <1>0, <1>2 DEF FilesOK
  <2>2. config' \in [FileBlocks -> Files!Configs] /\ config'[Me] = config[Me]
    BY <1>0, <1>1, <1>2 DEF FilesOK, Files!Configs
  <2>3. \A b \in FileBlocks \ Extending : files'[b] = files[b] /\ config'[b] = config[b]
    BY <1>0, <1>1, <1>2 DEF FilesOK
  <2>4. MissingOrNot'
    BY <1>0, <1>2, <2>2, <2>3 DEF MissingOrNot, Files!ClearedWithin, Files!Missing
  <2> QED
    BY <2>1, <2>2, <2>4
<1>3. CASE Files!DeliverClear(a)
  <2> DEFINE l == [kind |-> "list", names |-> {}]
  <2>1. /\ a.kind = "clear" /\ answers' = (answers \ {a}) \cup {l}
        /\ files' = [b \in FileBlocks |-> IF b \in Extending THEN {} ELSE files[b]]
        /\ config' = [b \in FileBlocks |-> Files!ClearConfig(b)]
        /\ late' = (late \/ Files!Refreshing) /\ text' = "none"
        /\ UNCHANGED <<puts, tree, conf, selected>>
        /\ UNCHANGED <<calls, modals, wanted, mixed, rushed, missed, activeTab>>
    BY <1>3 DEF Files!DeliverClear
  <2>2. l.kind = "list" /\ l.names = {}
        /\ l \in [kind : {"list", "config", "show", "text", "clear"}, names : SUBSET FileNames]
    OBVIOUS
  <2> HIDE DEF l
  <2>3. files' = [b \in FileBlocks |-> IF b \in Extending THEN files[b] \ FileNames ELSE files[b]]
    BY <1>0, <2>1 DEF FilesOK
  <2>4. /\ files' \in [FileBlocks -> SUBSET FileNames]
        /\ config' \in [FileBlocks -> Files!Configs] /\ config'[Me] = config[Me]
        /\ MissingOrNot'
    BY <1>2, <2>1, <2>3
  <2>5. FilesOK'
    BY <1>0, <2>1, <2>4 DEF FilesOK, Files!Configs, Files!Missing
  <2>6. RequestsOK'
    BY <1>0, <2>1, <2>2 DEF RequestsOK, Files!Missing
  <2>7. ListsCurrent'
    <3>1. Files!Listing' = {}
      BY <2>1 DEF Files!Listing, Files!FilesAssumption
    <3>2. Files!Refreshing' /\ (Uploading' <=> Uploading)
      BY <2>1, <2>2 DEF Files!Refreshing, Uploading
    <3>3. ~ late' => \A b \in answers : b.kind \notin {"list", "config"}
      BY <2>1 DEF Files!Refreshing
    <3> QED
      BY <1>0, <2>1, <2>2, <3>1, <3>2, <3>3 DEF ListsCurrent, Files!Missing
  <2>8. TextsSelected'
    BY <1>0, <2>1, <2>2 DEF TextsSelected, Files!TextOfSelected
  <2> QED
    BY <2>1, <2>4, <2>5, <2>6, <2>7, <2>8, ActiveAside, EditsAside DEF FilesInv
<1>4. ASSUME NEW gone \in SUBSET FileNames, Files!ClearFails(a, gone)
      PROVE  FilesInv'
  <2>1. /\ a.kind = "clear" /\ answers' = answers \ {a} /\ late' = TRUE
        /\ files' = [b \in FileBlocks |-> IF b \in Extending THEN files[b] \ gone ELSE files[b]]
        /\ config' \in {config, [b \in FileBlocks |-> Files!ClearConfig(b)]}
        /\ UNCHANGED <<puts, tree, conf, selected, text>>
        /\ UNCHANGED <<calls, modals, wanted, mixed, rushed, missed, activeTab>>
    BY <1>4 DEF Files!ClearFails
  <2>2. /\ files' \in [FileBlocks -> SUBSET FileNames]
        /\ config' \in [FileBlocks -> Files!Configs] /\ config'[Me] = config[Me]
        /\ MissingOrNot'
    BY <1>2, <2>1
  <2>3. FilesOK' /\ RequestsOK'
    BY <1>0, <2>1, <2>2 DEF FilesOK, RequestsOK, Files!Configs, Files!Missing
  <2>4. ListsCurrent' /\ TextsSelected'
    BY <2>1, TextsAside DEF ListsCurrent
  <2> QED
    BY <2>1, <2>2, <2>3, <2>4, ActiveAside, EditsAside DEF FilesInv
<1> QED
  BY <1>3, <1>4

-----------------------------------------------------------------------------
(* What the user does *)

\* A callback starts: there is no other, unless a click came at its end.
LEMMA Started ==
    ASSUME Files!FilesAssumption, FilesInv, NEW work, Files!Starts(work),
           work \in [does : {"nothing", "upload", "volume", "add", "remove"},
                     with : Vars \cup Mounts \cup {"none"},
                     at : {"done", "read", "delay", "reread", "tail", "thrown"}],
           work.at = "read" => \/ work.does = "volume" /\ work.with \in Mounts
                               \/ work.does \in {"add", "remove"} /\ work.with \in Vars
    PROVE  /\ CallbacksOK' /\ OneActive' /\ modals' \subseteq Overlays /\ (rushed => rushed')
           /\ \E c \in Calls : calls[c].at = "done" /\ calls' = [calls EXCEPT ![c] = work]
<1>0. FilesOK /\ CallbacksOK /\ OneActive
  BY DEF FilesInv
<1>1. PICK c \in Calls : calls[c].at = "done" /\ calls' = [calls EXCEPT ![c] = work]
  <2> DEFINE d == CHOOSE d \in Files!At("done") : TRUE
  <2>1. Files!At("done") # {} /\ calls' = [calls EXCEPT ![d] = work]
    BY DEF Files!Starts
  <2>2. d \in Files!At("done")
    BY <2>1
  <2>3. d \in Calls /\ calls[d].at = "done"
    BY <2>2 DEF Files!At
  <2> QED
    BY <2>1, <2>3
<1>2. /\ modals' = modals \cup {"loading"}
      /\ rushed' = (rushed \/ "loading" \in modals \/ Files!At("tail") # {})
  BY DEF Files!Starts
<1>3. CallbacksOK'
  BY <1>0, <1>1 DEF CallbacksOK
<1>4. modals' \subseteq Overlays /\ "loading" \in modals' /\ (rushed => rushed')
  BY <1>0, <1>2 DEF FilesOK, Overlays
<1>5. ~ rushed' => \A d \in Calls : ~ Active(d)
  <2>1. ~ rushed' => \A d \in Calls : calls[d].at # "tail"
    BY <1>2 DEF Files!At
  <2> QED
    BY <1>0, <1>2, <2>1 DEF OneActive, Active
<1>6. \A d \in Calls : Active(d)' => Active(d) \/ d = c
  BY <1>0, <1>1 DEF CallbacksOK, Active
<1>7. OneActive'
  BY <1>4, <1>5, <1>6 DEF OneActive
<1> QED
  BY <1>1, <1>3, <1>4, <1>7

\* A callback that starts has sent no edit yet.
LEMMA StartedAside ==
    ASSUME FilesInv, NEW c \in Calls, NEW work, calls[c].at = "done",
           calls' = [calls EXCEPT ![c] = work], rushed => rushed',
           UNCHANGED <<config, wanted, late, missed>>,
           \A p : Carries(p) => (p \in puts' <=> p \in puts)
    PROVE  EditsThrough' /\ (Uploading => Uploading')
<1>0. CallbacksOK /\ EditsThrough
  BY DEF FilesInv
<1>1. \A d \in Calls : d # c => calls'[d] = calls[d]
  BY <1>0 DEF CallbacksOK
<1>2. \A d \in Calls : calls[d].at = "delay" => calls'[d] = calls[d]
  BY <1>1
<1>3. \A p : Carries(p)' <=> Carries(p)
  BY DEF Carries, Files!Missing
<1>4. EditsThrough'
  BY <1>0, <1>2, <1>3 DEF EditsThrough, Files!EditsApart
<1> QED
  BY <1>2, <1>4 DEF Uploading

LEMMA ClickSteps ==
    ASSUME Files!FilesAssumption, FilesInv, Files!UserStep
    PROVE  FilesInv'
<1> USE DEF Files!storage, Files!shown, Files!edits, Files!history, Files!Answer, Files!Call
<1>0. FilesOK /\ RequestsOK /\ CallbacksOK /\ OneActive /\ EditsThrough /\ MissingOrNot
      /\ ListsCurrent /\ TextsSelected
  BY DEF FilesInv
<1>1. CASE \E p \in FileNames : Files!ClickFile(p)
  <2>0. PICK p \in FileNames : Files!ClickFile(p)
    BY <1>1
  <2> DEFINE b == [kind |-> "text", names |-> {p}]
  <2>1. /\ selected' = p /\ answers' = answers \cup {b}
        /\ mixed' = (mixed \/ \E a \in answers : a.kind \in {"text", "clear"})
        /\ UNCHANGED <<files, config, puts, tree, conf, text>>
        /\ UNCHANGED <<calls, modals, wanted, late, rushed, missed, activeTab>>
    BY <2>0 DEF Files!ClickFile
  <2>2. b.kind = "text" /\ b.names = {p}
        /\ b \in [kind : {"list", "config", "show", "text", "clear"}, names : SUBSET FileNames]
    OBVIOUS
  <2> HIDE DEF b
  <2>3. FilesOK' /\ RequestsOK'
    BY <1>0, <2>1, <2>2 DEF FilesOK, RequestsOK, Files!Configs, Files!Missing
  <2>4. ListsCurrent'
    BY <2>1, <2>2, ListsAside DEF Uploading
  <2>5. TextsSelected'
    BY <1>0, <2>1, <2>2 DEF TextsSelected, Files!TextOfSelected
  <2> QED
    BY <2>1, <2>3, <2>4, <2>5, ActiveAside, EditsAside, MissingAside DEF FilesInv
<1>2. CASE Files!ClickClear
  <2> DEFINE b == [kind |-> "clear", names |-> {}]
  <2>1. /\ answers' = answers \cup {b}
        /\ mixed' = (mixed \/ \E a \in answers : a.kind = "text")
        /\ UNCHANGED <<files, config, puts, tree, conf, selected, text>>
        /\ UNCHANGED <<calls, modals, wanted, late, rushed, missed, activeTab>>
    BY <1>2 DEF Files!ClickClear
  <2>2. b.kind = "clear" /\ b.names = {}
        /\ b \in [kind : {"list", "config", "show", "text", "clear"}, names : SUBSET FileNames]
    OBVIOUS
  <2> HIDE DEF b
  <2>3. FilesOK' /\ RequestsOK'
    BY <1>0, <2>1, <2>2 DEF FilesOK, RequestsOK, Files!Configs, Files!Missing
  <2>4. ListsCurrent'
    BY <2>1, <2>2, ListsAside DEF Uploading
  <2>5. TextsSelected'
    BY <2>1, <2>2, TextsAside
  <2> QED
    BY <2>1, <2>3, <2>4, <2>5, ActiveAside, EditsAside, MissingAside DEF FilesInv
<1>3. CASE \E ps \in Uploads : Files!ClickUpload(ps)
  <2>0. PICK ps \in Uploads : Files!ClickUpload(ps)
    BY <1>3
  <2> DEFINE work == [does |-> "upload", with |-> "none", at |-> "delay"]
             sent == {[path |-> p, conf |-> Files!Missing] : p \in ps}
  <2>1. /\ Files!Starts(work) /\ puts' = puts \cup sent
        /\ UNCHANGED <<files, config, tree, conf, selected, text>>
        /\ UNCHANGED <<answers, wanted, late, mixed, missed, activeTab>>
    BY <2>0 DEF Files!ClickUpload
  <2>2. /\ work \in [does : {"nothing", "upload", "volume", "add", "remove"},
                     with : Vars \cup Mounts \cup {"none"},
                     at : {"done", "read", "delay", "reread", "tail", "thrown"}]
        /\ work.at = "delay" /\ work.does = "upload"
    OBVIOUS
  <2>3. /\ sent \subseteq [path : FileNames, conf : {Files!Missing}]
        /\ \A p \in sent : p.conf = Files!Missing
    BY DEF Files!FilesAssumption
  <2> HIDE DEF work, sent
  <2>4. /\ CallbacksOK' /\ OneActive' /\ modals' \subseteq Overlays /\ (rushed => rushed')
        /\ \E c \in Calls : calls[c].at = "done" /\ calls' = [calls EXCEPT ![c] = work]
    BY <2>1, <2>2, Started
  <2>5. PICK c \in Calls : calls[c].at = "done" /\ calls' = [calls EXCEPT ![c] = work]
    BY <2>4
  <2>6. calls'[c] = work /\ \A d \in Calls : d # c => calls'[d] = calls[d]
    BY <1>0, <2>5 DEF CallbacksOK
  <2>7. FilesOK'
    BY <1>0, <2>1, <2>4 DEF FilesOK, Files!Configs, Files!Missing
  <2>8. RequestsOK'
    BY <1>0, <2>1, <2>3 DEF RequestsOK, Files!Missing
  <2>9. Uploading'
    BY <2>2, <2>6 DEF Uploading
  <2>10. ListsCurrent'
    <3>1. Files!Listing' = Files!Listing
      BY <2>1 DEF Files!Listing
    <3> QED
      BY <1>0, <2>1, <2>9, <3>1 DEF ListsCurrent
  <2>11. EditsThrough'
    <3>1. \A p : Carries(p) => (p \in puts' <=> p \in puts)
      BY <2>1, <2>3 DEF Carries
    <3> QED
      BY <2>1, <2>4, <2>5, <3>1, StartedAside
  <2>12. MissingOrNot'
    BY <1>0, <2>1, <2>3 DEF MissingOrNot, Files!ClearedWithin, Files!Missing
  <2>13. TextsSelected'
    BY <2>1, TextsAside
  <2> QED
    BY <2>4, <2>7, <2>8, <2>10, <2>11, <2>12, <2>13 DEF FilesInv
<1>4. ASSUME UNCHANGED <<files, config, puts, tree, conf, selected, text>>,
             UNCHANGED <<answers, calls, wanted, late, mixed, rushed, missed>>,
             modals' \subseteq Overlays, "loading" \in modals => "loading" \in modals',
             activeTab' \in {"files", "settings"}
      PROVE  FilesInv'
  <2>1. FilesOK' /\ RequestsOK' /\ CallbacksOK'
    BY <1>0, <1>4 DEF FilesOK, RequestsOK, CallbacksOK, Files!Configs, Files!Missing
  <2>2. OneActive'
    BY <1>0, <1>4 DEF OneActive, Active
  <2>3. ListsCurrent' /\ TextsSelected'
    BY <1>4, ListsAside, TextsAside DEF Uploading
  <2> QED
    BY <1>4, <2>1, <2>2, <2>3, EditsAside, MissingAside DEF FilesInv
<1>5. CASE \E d \in {"volume", "env"} : Files!OpenDialog(d)
  <2>1. PICK d \in {"volume", "env"} : Files!OpenDialog(d)
    BY <1>5
  <2>2. /\ modals' = modals \cup {d}
        /\ UNCHANGED <<files, config, puts, tree, conf, selected, text>>
        /\ UNCHANGED <<answers, calls, wanted, late, mixed, rushed, missed, activeTab>>
    BY <2>1 DEF Files!OpenDialog
  <2> QED
    BY <1>0, <1>4, <2>2 DEF FilesOK, Overlays
<1>6. CASE \E d \in {"volume", "env"} : Files!Cancel(d)
  <2>1. PICK d \in {"volume", "env"} : Files!Cancel(d)
    BY <1>6
  <2>2. /\ modals' = modals \ {d}
        /\ UNCHANGED <<files, config, puts, tree, conf, selected, text>>
        /\ UNCHANGED <<answers, calls, wanted, late, mixed, rushed, missed, activeTab>>
    BY <2>1 DEF Files!Cancel
  <2> QED
    BY <1>0, <1>4, <2>2 DEF FilesOK, Overlays
<1>8. CASE \E u \in {"files", "settings"} : Files!ClickTab(u)
  <2>1. /\ activeTab' \in {"files", "settings"}
        /\ UNCHANGED <<files, config, puts, tree, conf, selected, text>>
        /\ UNCHANGED <<answers, calls, modals, wanted, late, mixed, rushed, missed>>
    BY <1>8 DEF Files!ClickTab
  <2> QED
    BY <1>0, <1>4, <2>1 DEF FilesOK
<1>7. CASE Files!ClickEdit
  <2>0. PICK work : /\ Files!Starts(work)
                    /\ work \in [does : {"volume", "add", "remove"}, with : Vars \cup Mounts,
                                 at : {"read"}]
                    /\ \/ work.does = "volume" /\ work.with \in Mounts
                       \/ work.does \in {"add", "remove"} /\ work.with \in Vars
                    /\ UNCHANGED <<files, config, puts, tree, conf, selected, text>>
                    /\ UNCHANGED <<answers, wanted, late, mixed, missed, activeTab>>
    <3>1. CASE \E m \in Mounts : Files!Edit("volume", m)
      BY <3>1 DEF Files!Edit
    <3>2. CASE \E v \in Vars : Files!Edit("add", v)
      BY <3>2 DEF Files!Edit
    <3>3. CASE \E v \in conf.env : Files!Edit("remove", v)
      <4>1. conf.env \subseteq Vars
        <5>1. conf \in [volume : Mounts \cup {""}, env : SUBSET Vars] \/ conf = Files!Missing
          BY <1>0 DEF FilesOK, Files!Configs
        <5>2. Files!Missing.env = {}
          BY DEF Files!Missing
        <5> QED
          BY <5>1, <5>2
      <4> QED
        BY <3>3, <4>1 DEF Files!Edit
    <3> QED
      BY <1>7, <3>1, <3>2, <3>3 DEF Files!ClickEdit
  <2>1. /\ CallbacksOK' /\ OneActive' /\ modals' \subseteq Overlays /\ (rushed => rushed')
        /\ \E c \in Calls : calls[c].at = "done" /\ calls' = [calls EXCEPT ![c] = work]
    BY <2>0, Started
  <2>2. PICK c \in Calls : calls[c].at = "done" /\ calls' = [calls EXCEPT ![c] = work]
    BY <2>1
  <2>3. calls'[c] = work /\ \A d \in Calls : d # c => calls'[d] = calls[d]
    BY <1>0, <2>2 DEF CallbacksOK
  <2>4. FilesOK' /\ RequestsOK'
    BY <1>0, <2>0, <2>1 DEF FilesOK, RequestsOK, Files!Configs, Files!Missing
  <2>5. EditsThrough' /\ (Uploading => Uploading')
    BY <2>0, <2>1, <2>2, StartedAside
  <2> QED
    BY <2>0, <2>1, <2>4, <2>5, ListsAside, TextsAside, MissingAside DEF FilesInv
<1> QED
  BY <1>1, <1>2, <1>3, <1>5, <1>6, <1>7, <1>8 DEF Files!UserStep

-----------------------------------------------------------------------------
(* Uploads *)

LEMMA PutSteps ==
    ASSUME Files!FilesAssumption, FilesInv, NEW p \in puts,
           Files!PutArrives(p) \/ Files!PutLost(p)
    PROVE  FilesInv'
<1> USE DEF Files!storage, Files!shown, Files!edits, Files!history
<1>0. FilesOK /\ RequestsOK /\ CallbacksOK /\ OneActive /\ EditsThrough /\ MissingOrNot
      /\ ListsCurrent /\ TextsSelected /\ Me \in FileBlocks /\ Me \in Extending
  BY DEF FilesInv, Files!FilesAssumption
<1>1. /\ p.conf = Files!Missing => p.path \in FileNames
      /\ p.conf # Files!Missing => p.conf \in Edited
      /\ p.conf \in Files!Configs
  <2>1. \A c \in Edited : c # Files!Missing
    <3>1. \A c \in Edited : c.volume # "missing"
      BY DEF Edited, Files!FilesAssumption
    <3>2. Files!Missing.volume = "missing"
      BY DEF Files!Missing
    <3> QED
      BY <3>1, <3>2
  <2> QED
    BY <1>0, <2>1 DEF RequestsOK, Files!Configs, Edited
<1>2. CASE Files!PutArrives(p) /\ p.conf = Files!Missing
  <2>1. /\ puts' = puts \ {p} /\ files' = [files EXCEPT ![Me] = @ \cup {p.path}]
        /\ late' = (late \/ Files!Refreshing)
        /\ UNCHANGED <<config, tree, conf, selected, text>>
        /\ UNCHANGED <<answers, calls, modals, wanted, mixed, rushed, missed, activeTab>>
    BY <1>2 DEF Files!PutArrives
  <2>2. FilesOK' /\ RequestsOK'
    BY <1>0, <1>1, <1>2, <2>1 DEF FilesOK, RequestsOK, Files!Configs, Files!Missing
  <2>3. EditsThrough'
    BY <1>0, <1>2, <2>1 DEF EditsThrough, Carries, Files!EditsApart, Files!Missing
  <2>4. \A b \in FileBlocks \ Extending : files'[b] = files[b]
    BY <1>0, <2>1 DEF FilesOK
  <2>5. MissingOrNot'
    BY <1>0, <2>1, <2>4 DEF MissingOrNot, Files!ClearedWithin, Files!Missing
  <2>6. ListsCurrent'
    <3>1. ~ late' => ~ Files!Refreshing /\ Uploading
      BY <1>0, <1>2, <2>1 DEF ListsCurrent
    <3>2. Uploading' <=> Uploading
      BY <2>1 DEF Uploading
    <3>3. ~ Files!Refreshing => \A a \in answers : a.kind \notin {"list", "config"}
      BY DEF Files!Refreshing
    <3> QED
      BY <2>1, <3>1, <3>2, <3>3 DEF ListsCurrent
  <2> QED
    BY <2>1, <2>2, <2>3, <2>5, <2>6, ActiveAside, TextsAside DEF FilesInv
<1>3. CASE Files!PutArrives(p) /\ p.conf # Files!Missing
  <2>1. /\ puts' = puts \ {p} /\ config' = [config EXCEPT ![Me] = p.conf]
        /\ late' <=> late
        /\ UNCHANGED <<files, tree, conf, selected, text>>
        /\ UNCHANGED <<answers, calls, modals, wanted, mixed, rushed, missed, activeTab>>
    BY <1>3 DEF Files!PutArrives
  <2>2. FilesOK' /\ RequestsOK'
    BY <1>0, <1>1, <1>3, <2>1 DEF FilesOK, RequestsOK, Files!Configs, Files!Missing
  <2>3. config'[Me] = p.conf /\ \A b \in FileBlocks : b # Me => config'[b] = config[b]
    BY <1>0, <2>1 DEF FilesOK
  <2>4. EditsThrough'
    BY <1>0, <1>3, <2>1, <2>3 DEF EditsThrough, Carries, Files!EditsApart, Files!Missing
  <2>5. MissingOrNot'
    BY <1>0, <1>3, <2>1, <2>3 DEF MissingOrNot, Files!ClearedWithin, Files!Missing
  <2>6. ListsCurrent'
    <3>1. Files!Listing' = Files!Listing /\ (Uploading' <=> Uploading)
          /\ (Files!Refreshing' <=> Files!Refreshing)
      BY <2>1 DEF Files!Listing, Uploading, Files!Refreshing
    <3> QED
      BY <1>0, <2>1, <3>1 DEF ListsCurrent, Files!Missing
  <2> QED
    BY <2>1, <2>2, <2>4, <2>5, <2>6, ActiveAside, TextsAside DEF FilesInv
<1>4. CASE Files!PutLost(p)
  <2>1. /\ puts' = puts \ {p} /\ late' = TRUE
        /\ missed' = (missed \/ p.conf # Files!Missing)
        /\ UNCHANGED <<files, config, tree, conf, selected, text>>
        /\ UNCHANGED <<answers, calls, modals, wanted, mixed, rushed, activeTab>>
    BY <1>4 DEF Files!PutLost
  <2>2. FilesOK' /\ RequestsOK'
    BY <1>0, <2>1 DEF FilesOK, RequestsOK, Files!Configs, Files!Missing
  <2>3. EditsThrough' /\ ListsCurrent'
    BY <1>0, <2>1 DEF EditsThrough, Carries, Files!EditsApart, ListsCurrent, Files!Missing
  <2>4. MissingOrNot'
    BY <1>0, <2>1 DEF MissingOrNot, Files!ClearedWithin, Files!Missing
  <2> QED
    BY <2>1, <2>2, <2>3, <2>4, ActiveAside, TextsAside DEF FilesInv
<1> QED
  BY <1>2, <1>3, <1>4

-----------------------------------------------------------------------------
(* The callbacks *)

Works == [does : {"nothing", "upload", "volume", "add", "remove"},
          with : Vars \cup Mounts \cup {"none"},
          at : {"done", "read", "delay", "reread", "tail", "thrown"}]

\* A callback that is under way gets to its end, or goes on under the modal.
LEMMA CallEnds ==
    ASSUME FilesInv, NEW c \in Calls, Active(c), NEW work \in Works,
           calls' = [calls EXCEPT ![c] = work], rushed' = rushed,
           \/ work.at \in {"done", "tail", "thrown"}
           \/ work.at \in {"delay", "reread"} /\ modals' = modals /\ calls[c].at # "tail"
    PROVE  /\ CallbacksOK' /\ OneActive'
           /\ calls'[c] = work /\ \A d \in Calls \ {c} : calls'[d] = calls[d]
<1>0. CallbacksOK /\ OneActive
  BY DEF FilesInv
<1>1. calls'[c] = work /\ \A d \in Calls \ {c} : calls'[d] = calls[d]
  BY <1>0 DEF CallbacksOK
<1>2. CallbacksOK'
  BY <1>0, <1>1 DEF CallbacksOK, Works
<1>3. OneActive'
  <2> SUFFICES ASSUME ~ rushed
               PROVE  /\ \A d, e \in Calls : Active(d)' /\ Active(e)' => d = e
                      /\ \A d \in Calls : Active(d)' /\ calls'[d].at # "tail" =>
                            "loading" \in modals'
    BY DEF OneActive
  <2>1. \A d \in Calls \ {c} : ~ Active(d)
    BY <1>0 DEF OneActive
  <2>2. \A d \in Calls \ {c} : ~ Active(d)'
    BY <1>1, <2>1 DEF Active
  <2>3. Active(c)' /\ work.at # "tail" => "loading" \in modals /\ modals' = modals
    BY <1>0, <1>1 DEF OneActive, Active
  <2> QED
    BY <1>1, <2>2, <2>3
<1> QED
  BY <1>1, <1>2, <1>3

\* Callbacks whose timer does not run have no edit on its way.
LEMMA TimersAside ==
    ASSUME FilesInv, NEW c \in Calls, calls[c].at # "delay",
           \A d \in Calls \ {c} : calls'[d] = calls[d]
    PROVE  /\ Uploading => Uploading'
           /\ UNCHANGED <<config, puts, wanted, late, rushed, missed>> => EditsThrough'
<1>1. Uploading => Uploading'
  BY DEF Uploading
<1>2. ASSUME UNCHANGED <<config, puts, wanted, late, rushed, missed>> PROVE EditsThrough'
  BY <1>2 DEF FilesInv, EditsThrough, Carries, Files!EditsApart, Files!Missing
<1> QED
  BY <1>1, <1>2

LEMMA AppliedFacts ==
    ASSUME NEW work, NEW cfg \in Edited,
           \/ work.does = "volume" /\ work.with \in Mounts
           \/ work.does \in {"add", "remove"} /\ work.with \in Vars
    PROVE  Files!Applied(work, cfg) \in Edited
<1>1. CASE work.does = "volume"
  <2>1. Files!Applied(work, cfg) = [cfg EXCEPT !.volume = work.with]
    BY <1>1 DEF Files!Applied
  <2> QED
    BY <1>1, <2>1 DEF Edited
<1>2. CASE work.does = "add"
  <2>1. Files!Applied(work, cfg) = [cfg EXCEPT !.env = @ \cup {work.with}]
    BY <1>2 DEF Files!Applied
  <2> QED
    BY <1>2, <2>1 DEF Edited
<1>3. CASE work.does = "remove"
  <2>1. Files!Applied(work, cfg) = [cfg EXCEPT !.env = @ \ {work.with}]
    BY <1>3 DEF Files!Applied
  <2> QED
    BY <1>3, <2>1 DEF Edited
<1> QED
  BY <1>1, <1>2, <1>3

LEMMA EditedFacts ==
    ASSUME Files!FilesAssumption
    PROVE  /\ Files!Configs = Edited \cup {Files!Missing}
           /\ Files!Missing \notin Edited
<1>1. \A c \in Edited : c.volume # "missing"
  BY DEF Edited, Files!FilesAssumption
<1>2. Files!Missing.volume = "missing"
  BY DEF Files!Missing
<1> QED
  BY <1>1, <1>2 DEF Edited, Files!Configs

LEMMA ReadAndSendKeeps ==
    ASSUME Files!FilesAssumption, FilesInv, NEW c \in Calls, Files!ReadAndSend(c)
    PROVE  FilesInv'
<1> USE DEF Files!storage
<1>0. FilesOK /\ RequestsOK /\ CallbacksOK /\ OneActive /\ EditsThrough /\ MissingOrNot
      /\ ListsCurrent /\ TextsSelected /\ Me \in FileBlocks
  BY DEF FilesInv, Files!FilesAssumption
<1>1. /\ calls[c].at = "read" /\ calls[c] \in Works
      /\ \/ calls[c].does = "volume" /\ calls[c].with \in Mounts
         \/ calls[c].does \in {"add", "remove"} /\ calls[c].with \in Vars
      /\ UNCHANGED <<files, config, tree, selected, text, answers, modals, late, mixed, rushed, activeTab>>
  BY <1>0 DEF Files!ReadAndSend, Files!ReadAndSendOver, Files!At, CallbacksOK, Works
<1>2. Active(c)
  BY <1>1 DEF Active
<1>3. CASE config[Me] = Files!Missing
  <2> DEFINE work == [calls[c] EXCEPT !.at = "thrown"]
  <2>1. calls' = [calls EXCEPT ![c] = work] /\ UNCHANGED <<puts, conf, wanted, missed>>
    BY <1>3 DEF Files!ReadAndSend, Files!ReadAndSendOver
  <2>2. work \in Works /\ work.at = "thrown"
    BY <1>1 DEF Works
  <2> HIDE DEF work
  <2>3. /\ CallbacksOK' /\ OneActive'
        /\ \A d \in Calls \ {c} : calls'[d] = calls[d]
    BY <1>1, <1>2, <2>1, <2>2, CallEnds
  <2>4. EditsThrough' /\ (Uploading => Uploading')
    BY <1>1, <2>1, <2>3, TimersAside
  <2>5. FilesOK' /\ RequestsOK'
    BY <1>0, <1>1, <2>1 DEF FilesOK, RequestsOK, Files!Configs, Files!Missing
  <2> QED
    BY <1>1, <2>1, <2>3, <2>4, <2>5, MissingAside, ListsAside, TextsAside DEF FilesInv
<1>4. CASE config[Me] # Files!Missing
  <2> DEFINE work == [calls[c] EXCEPT !.at = "delay"]
             p == [path |-> "none", conf |-> Files!Applied(calls[c], config[Me])]
  <2>1. /\ calls' = [calls EXCEPT ![c] = work] /\ conf' = config[Me] /\ puts' = puts \cup {p}
        /\ wanted' = Files!Applied(calls[c], wanted)
        /\ missed' = (missed \/ \E q \in puts : q.conf # Files!Missing)
    BY <1>4 DEF Files!ReadAndSend, Files!ReadAndSendOver
  <2>2. work \in Works /\ work.at = "delay" /\ work.does = calls[c].does
    BY <1>1 DEF Works
  <2>3. config[Me] \in Edited /\ wanted \in Edited
    BY <1>0, <1>4, EditedFacts DEF FilesOK, MissingOrNot
  <2>4. Files!Applied(calls[c], config[Me]) \in Edited /\ wanted' \in Edited
    BY <1>1, <2>1, <2>3, AppliedFacts
  <2>5. /\ p \in [path : {"none"}, conf : Edited] /\ p.conf = Files!Applied(calls[c], config[Me])
        /\ p.conf # Files!Missing /\ wanted' # Files!Missing
    BY <2>4, EditedFacts
  <2> HIDE DEF work, p
  <2>6. /\ CallbacksOK' /\ OneActive' /\ calls'[c] = work
        /\ \A d \in Calls \ {c} : calls'[d] = calls[d]
    BY <1>1, <1>2, <2>1, <2>2, CallEnds
  <2>7. Uploading => Uploading'
    BY <1>1, <2>6, TimersAside
  <2>8. FilesOK'
    BY <1>0, <1>1, <2>1, <2>3, <2>4, EditedFacts DEF FilesOK, Files!Configs, Files!Missing, Edited
  <2>9. RequestsOK'
    BY <1>0, <1>1, <2>1, <2>5 DEF RequestsOK, Files!Missing, Edited
  <2>10. EditsThrough'
    <3>1. \A q : Carries(q)' <=> Carries(q)
      BY DEF Carries, Files!Missing
    <3>2. ASSUME ~ missed'
          PROVE  \A q \in puts' : Carries(q) => q.conf = wanted'
      <4>1. ~ missed /\ \A q \in puts : ~ Carries(q)
        BY <2>1, <3>2 DEF Carries
      <4>2. config[Me] = wanted
        BY <1>0, <4>1 DEF EditsThrough
      <4> QED
        BY <2>1, <2>5, <4>1, <4>2
    <3>3. p \in puts' /\ Carries(p)
      BY <2>1, <2>5 DEF Carries
    <3>4. calls'[c].at = "delay" /\ calls'[c].does # "upload"
      BY <1>1, <2>2, <2>6
    <3>5. ASSUME ~ late, ~ rushed, missed'
          PROVE  FALSE
      <4>1. ~ missed
        BY <1>0, <3>5 DEF EditsThrough, Files!EditsApart
      <4>2. PICK q \in puts : Carries(q)
        BY <2>1, <3>5, <4>1 DEF Carries
      <4>3. PICK d \in Calls : calls[d].at = "delay"
        BY <1>0, <3>5, <4>2 DEF EditsThrough
      <4> QED
        BY <1>0, <1>1, <1>2, <3>5, <4>3 DEF OneActive, Active
    <3>6. Files!EditsApart'
      BY <1>1, <3>5 DEF Files!EditsApart
    <3> QED
      BY <3>1, <3>2, <3>3, <3>4, <3>6 DEF EditsThrough
  <2>11. MissingOrNot'
    BY <1>0, <1>1, <1>4, <2>1, <2>5 DEF MissingOrNot, Files!ClearedWithin, Files!Missing
  <2>12. ListsCurrent'
    <3>1. Files!Listing' = Files!Listing /\ (Files!Refreshing' <=> Files!Refreshing)
      BY <1>1 DEF Files!Listing, Files!Refreshing
    <3> QED
      BY <1>0, <1>1, <2>1, <2>5, <2>7, <3>1 DEF ListsCurrent, Files!Missing
  <2> QED
    BY <1>1, <2>6, <2>8, <2>9, <2>10, <2>11, <2>12, TextsAside DEF FilesInv
<1> QED
  BY <1>3, <1>4

LEMMA CallbackSteps ==
    ASSUME Files!FilesAssumption, FilesInv, NEW c \in Calls,
           \/ Files!UploadEnds(c) \/ Files!EditWaited(c) \/ Files!Reread(c)
           \/ Files!DialogEnds(c) \/ Files!EditFails(c)
    PROVE  FilesInv'
<1> USE DEF Files!storage, Files!shown, Files!edits, Files!history, Files!At
<1>0. FilesOK /\ RequestsOK /\ CallbacksOK /\ OneActive /\ EditsThrough /\ MissingOrNot
      /\ ListsCurrent /\ TextsSelected /\ Me \in FileBlocks /\ calls[c] \in Works
  BY DEF FilesInv, Files!FilesAssumption, CallbacksOK, Works
<1>1. CASE Files!UploadEnds(c)
  <2> DEFINE l == [kind |-> "list", names |-> Files!Listing]
  <2>1. /\ calls[c].at = "delay" /\ calls[c].does = "upload"
        /\ calls' = [calls EXCEPT ![c] = Files!Done] /\ answers' = answers \cup {l}
        /\ modals' = modals \ {"loading"}
        /\ late' = (late \/ puts # {} \/ Files!Refreshing)
        /\ UNCHANGED <<files, config, puts, tree, conf, selected, text>>
        /\ UNCHANGED <<wanted, mixed, rushed, missed, activeTab>>
    BY <1>1 DEF Files!UploadEnds, Files!Refresh, Files!Answer
  <2>2. Files!Done \in Works /\ Files!Done.at = "done" /\ Active(c)
    BY <2>1 DEF Files!Done, Works, Active
  <2>3. /\ CallbacksOK' /\ OneActive' /\ \A d \in Calls \ {c} : calls'[d] = calls[d]
    BY <2>1, <2>2, CallEnds
  <2>4. modals' \subseteq Overlays
    BY <1>0, <2>1 DEF FilesOK
  <2>5. Files!Listing \in SUBSET FileNames
    BY <1>0 DEF FilesOK, Files!Listing, Files!FilesAssumption
  <2>6. l.kind = "list" /\ l.names = Files!Listing
        /\ l \in [kind : {"list", "config", "show", "text", "clear"}, names : SUBSET FileNames]
    BY <2>5
  <2> HIDE DEF l
  <2>7. FilesOK' /\ RequestsOK'
    BY <1>0, <2>1, <2>4, <2>6 DEF FilesOK, RequestsOK, Files!Configs, Files!Missing
  <2>8. EditsThrough'
    <3>1. ~ late' => ~ late /\ puts = {}
      BY <2>1
    <3> QED
      BY <1>0, <2>1, <3>1 DEF EditsThrough, Carries, Files!EditsApart, Files!Missing
  <2>9. ListsCurrent'
    <3>1. Files!Listing' = Files!Listing /\ Files!Refreshing'
      BY <2>1, <2>6 DEF Files!Listing, Files!Refreshing
    <3>2. ~ late' => ~ late /\ puts = {}
      BY <2>1
    <3> QED
      BY <1>0, <2>1, <2>6, <3>1, <3>2 DEF ListsCurrent
  <2>10. TextsSelected'
    BY <2>1, <2>6, TextsAside
  <2> QED
    BY <2>1, <2>3, <2>7, <2>8, <2>9, <2>10, MissingAside DEF FilesInv
<1>2. CASE Files!EditWaited(c) /\ calls[c].does = "volume"
  <2> DEFINE work == [calls[c] EXCEPT !.at = "tail"]
             b == [kind |-> "show", names |-> {}]
  <2>1. /\ calls[c].at = "delay"
        /\ calls' = [calls EXCEPT ![c] = work] /\ answers' = answers \cup {b}
        /\ modals' = modals \ {"loading"}
        /\ late' = (late \/ puts # {})
        /\ UNCHANGED <<files, config, puts, tree, conf, selected, text>>
        /\ UNCHANGED <<wanted, mixed, rushed, missed, activeTab>>
    BY <1>2 DEF Files!EditWaited, Files!Answer
  <2>2. work \in Works /\ work.at = "tail" /\ Active(c)
        /\ b.kind = "show"
        /\ b \in [kind : {"list", "config", "show", "text", "clear"}, names : SUBSET FileNames]
    BY <1>0, <2>1 DEF Works, Active
  <2> HIDE DEF work, b
  <2>3. /\ CallbacksOK' /\ OneActive' /\ \A d \in Calls \ {c} : calls'[d] = calls[d]
    BY <2>1, <2>2, CallEnds
  <2>4. modals' \subseteq Overlays
    BY <1>0, <2>1 DEF FilesOK
  <2>5. FilesOK' /\ RequestsOK'
    BY <1>0, <2>1, <2>2, <2>4 DEF FilesOK, RequestsOK, Files!Configs, Files!Missing
  <2>6. EditsThrough'
    <3>1. ~ late' => ~ late /\ puts = {}
      BY <2>1
    <3> QED
      BY <1>0, <2>1, <3>1 DEF EditsThrough, Carries, Files!EditsApart, Files!Missing
  <2>7. ListsCurrent'
    <3>1. Uploading => Uploading'
      BY <1>2, <2>3 DEF Uploading
    <3> QED
      BY <2>1, <2>2, <3>1, ListsAside
  <2>8. TextsSelected'
    BY <2>1, <2>2, TextsAside
  <2> QED
    BY <2>1, <2>3, <2>5, <2>6, <2>7, <2>8, MissingAside DEF FilesInv
<1>3. CASE Files!EditWaited(c) /\ calls[c].does # "volume"
  <2> DEFINE work == [calls[c] EXCEPT !.at = "reread"]
  <2>1. /\ calls[c].at = "delay" /\ calls[c].does # "upload"
        /\ calls' = [calls EXCEPT ![c] = work]
        /\ late' = (late \/ puts # {})
        /\ UNCHANGED <<files, config, puts, tree, conf, selected, text>>
        /\ UNCHANGED <<answers, modals, wanted, mixed, rushed, missed, activeTab>>
    BY <1>3 DEF Files!EditWaited
  <2>2. work \in Works /\ work.at = "reread" /\ Active(c)
    BY <1>0, <2>1 DEF Works, Active
  <2> HIDE DEF work
  <2>3. /\ CallbacksOK' /\ OneActive' /\ \A d \in Calls \ {c} : calls'[d] = calls[d]
    BY <2>1, <2>2, CallEnds
  <2>5. FilesOK' /\ RequestsOK'
    BY <1>0, <2>1 DEF FilesOK, RequestsOK, Files!Configs, Files!Missing
  <2>6. EditsThrough'
    <3>1. ~ late' => ~ late /\ puts = {}
      BY <2>1
    <3> QED
      BY <1>0, <2>1, <3>1 DEF EditsThrough, Carries, Files!EditsApart, Files!Missing
  <2>7. ListsCurrent'
    <3>1. Uploading => Uploading'
      BY <2>1, <2>3 DEF Uploading
    <3> QED
      BY <2>1, <3>1, ListsAside
  <2>8. TextsSelected'
    BY <2>1, TextsAside
  <2> QED
    BY <2>1, <2>3, <2>5, <2>6, <2>7, <2>8, MissingAside DEF FilesInv
<1>4. ASSUME NEW work \in Works, Active(c), calls[c].at # "delay",
             work.at \in {"done", "tail", "thrown"}, calls' = [calls EXCEPT ![c] = work],
             modals' \subseteq Overlays, conf' \in {conf, config[Me]},
             UNCHANGED <<files, config, puts, tree, selected, text>>,
             UNCHANGED <<answers, wanted, late, mixed, rushed, missed, activeTab>>
      PROVE  FilesInv'
  <2>1. /\ CallbacksOK' /\ OneActive' /\ \A d \in Calls \ {c} : calls'[d] = calls[d]
    BY <1>4, CallEnds
  <2>2. EditsThrough' /\ (Uploading => Uploading')
    BY <1>4, <2>1, TimersAside
  <2>3. config[Me] \in Files!Configs
    BY <1>0 DEF FilesOK
  <2>4. FilesOK' /\ RequestsOK'
    BY <1>0, <1>4, <2>3 DEF FilesOK, RequestsOK, Files!Configs, Files!Missing
  <2> QED
    BY <1>4, <2>1, <2>2, <2>4, MissingAside, ListsAside, TextsAside DEF FilesInv
<1>5. CASE Files!Reread(c)
  <2> DEFINE work == IF calls[c].does = "add" THEN [calls[c] EXCEPT !.at = "tail"] ELSE Files!Done
  <2>1. /\ calls[c].at = "reread" /\ conf' = config[Me]
        /\ calls' = [calls EXCEPT ![c] = work]
        /\ modals' = modals \ {"loading"}
        /\ UNCHANGED <<files, config, puts, tree, selected, text>>
        /\ UNCHANGED <<answers, wanted, late, mixed, rushed, missed, activeTab>>
    BY <1>5 DEF Files!Reread
  <2>2. work \in Works /\ work.at \in {"done", "tail", "thrown"} /\ Active(c)
    BY <1>0, <2>1 DEF Works, Active, Files!Done
  <2>3. modals' \subseteq Overlays
    BY <1>0, <2>1 DEF FilesOK
  <2> HIDE DEF work
  <2> QED
    BY <1>4, <2>1, <2>2, <2>3
<1>6. CASE Files!DialogEnds(c)
  <2>1. /\ calls[c].at = "tail" /\ conf' = config[Me]
        /\ calls' = [calls EXCEPT ![c] = Files!Done]
        /\ modals' = modals \ IF calls[c].does = "add" THEN {"loading", "env"}
                                          ELSE {"volume"}
        /\ UNCHANGED <<files, config, puts, tree, selected, text>>
        /\ UNCHANGED <<answers, wanted, late, mixed, rushed, missed, activeTab>>
    BY <1>6 DEF Files!DialogEnds
  <2>2. Files!Done \in Works /\ Files!Done.at = "done" /\ Active(c)
    BY <2>1 DEF Works, Active, Files!Done
  <2>3. modals' \subseteq Overlays
    BY <1>0, <2>1 DEF FilesOK
  <2> QED
    BY <1>4, <2>1, <2>2, <2>3
<1>7. CASE Files!EditFails(c)
  <2> DEFINE work == [calls[c] EXCEPT !.at = "thrown"]
  <2>1. /\ calls[c].at \in {"read", "reread", "tail"}
        /\ calls' = [calls EXCEPT ![c] = work]
        /\ UNCHANGED <<files, config, puts, tree, conf, selected, text>>
        /\ UNCHANGED <<answers, modals, wanted, late, mixed, rushed, missed, activeTab>>
    BY <1>7 DEF Files!EditFails
  <2>2. work \in Works /\ work.at = "thrown" /\ Active(c) /\ calls[c].at # "delay"
    BY <1>0, <2>1 DEF Works, Active
  <2>3. modals' \subseteq Overlays
    BY <1>0, <2>1 DEF FilesOK
  <2> HIDE DEF work
  <2> QED
    BY <1>4, <2>1, <2>2, <2>3
<1> QED
  BY <1>1, <1>2, <1>3, <1>5, <1>6, <1>7

LEMMA StepFilesInv ==
    ASSUME Files!FilesAssumption, FilesInv, [Files!Next]_(Files!vars)
    PROVE  FilesInv'
<1>1. CASE UNCHANGED Files!vars
  <2>1. /\ UNCHANGED <<files, config, puts, tree, conf, selected, text>>
        /\ UNCHANGED <<answers, calls, modals, wanted, late, mixed, rushed, missed, activeTab>>
    BY <1>1 DEF Files!vars, Files!storage, Files!shown, Files!edits, Files!history
  <2>2. FilesOK' /\ RequestsOK'
    BY <2>1 DEF FilesInv, FilesOK, RequestsOK, Files!Configs, Files!Missing
  <2> QED
    BY <2>1, <2>2, ActiveAside, EditsAside, MissingAside, ListsAside, TextsAside
       DEF FilesInv, Uploading
<1> QED
  BY <1>1, AnswerSteps, ClearSteps, ClickSteps, PutSteps, ReadAndSendKeeps, CallbackSteps
     DEF Files!Next, Files!Progress

LEMMA FilesInvSays ==
    ASSUME Files!FilesAssumption, FilesInv
    PROVE  Files!ViewCurrent /\ Files!FilesKept /\ Files!TypeOK
<1>1. Files!TextOfSelected
  BY DEF FilesInv, TextsSelected, Files!TextOfSelected
<1>2. Files!TreeCurrent
  BY DEF FilesInv, ListsCurrent, Files!Refreshing, Uploading, Files!TreeCurrent, Files!At
<1>3. Files!EditsKept /\ Files!EditsApart
  BY DEF FilesInv, EditsThrough, Files!EditsKept
<1>5. Files!ClearedWithin
  BY DEF FilesInv, MissingOrNot
<1>7. Files!TypeOK
  <2>1. puts \subseteq [path : FileNames \cup {"none"}, conf : Files!Configs]
    BY EditedFacts DEF FilesInv, RequestsOK
  <2> QED
    BY <2>1 DEF FilesInv, FilesOK, Overlays, RequestsOK, CallbacksOK, Files!TypeOK
<1> QED
  BY <1>1, <1>2, <1>3, <1>5, <1>7 DEF Files!ViewCurrent, Files!FilesKept

LEMMA FilesAlways == Spec => [](tab = "files" => FilesInv)
<1> DEFINE Inv == tab = "files" => FilesInv
<1>0. Files!FilesAssumption
  BY PagesAssumption
<1>1. Init => Inv
  BY <1>0, PageStarts, InitFilesInv
<1>2. Inv /\ [Next]_vars => Inv'
  BY <1>0, PageSteps, StepFilesInv
<1> QED
  BY <1>1, <1>2, PTL DEF Spec

\* BlockBrowser.tsx: what the tab Files shows is of the selection and what the
\* storage has, unless answers overlapped, came late or did not come.
THEOREM ViewIsCurrent == Spec => []ViewCurrent
<1> DEFINE Inv == tab = "files" => FilesInv
<1>0. Files!FilesAssumption
  BY PagesAssumption
<1>1. Inv => ViewCurrent
  BY <1>0, FilesInvSays DEF ViewCurrent
<1> QED
  BY <1>1, FilesAlways, PTL

\* BlockBrowser.tsx, service/storage/api.ts: an edit that reads, changes and
\* sends the whole configuration loses no other one, and clearing a block keeps
\* its configuration and the blocks whose names do not begin with its name.
THEOREM FilesAreKept == Spec => []FilesKept
<1> DEFINE Inv == tab = "files" => FilesInv
<1>0. Files!FilesAssumption
  BY PagesAssumption
<1>1. Inv => FilesKept
  BY <1>0, FilesInvSays DEF FilesKept
<1> QED
  BY <1>1, FilesAlways, PTL

-----------------------------------------------------------------------------
(* The tree of a listing *)

\* The names and the indexes of items.
Indices == Seq(Parts) \ {<<>>}

\* What has been met.
Met == {met[k] : k \in DOMAIN met}
Distinct(s) == \A j, k \in DOMAIN s : s[j] = s[k] => j = k
Elements(s) == {s[k] : k \in DOMAIN s}

\* The loops, and which indexes of the names they have been through.
LoopsOK ==
    /\ listing \in Tree!Listings
    /\ path \in 1 .. Len(listing) + 1
    /\ path <= Len(listing) => part \in 1 .. Len(listing[path])
    /\ met \in Seq(Indices) /\ Distinct(met)
    /\ phase \in {"building", "rooting", "done", "thrown"}
    /\ phase \in {"rooting", "done"} => path = Len(listing) + 1 /\ part \in 1 .. Len(met) + 1
MetIndexes ==
    /\ Met \subseteq Tree!Indexes
    /\ \A k \in 1 .. path - 1 : \A n \in 1 .. Len(listing[k]) : Tree!Upto(listing[k], n) \in Met
    /\ path <= Len(listing) => \A n \in 1 .. part - 1 : Tree!Upto(listing[path], n) \in Met

\* There is an item of what was met, unless an inherited property is in its
\* place; and always of what lies above another.
ItemsOfMet ==
    /\ DOMAIN items \subseteq Met \cup (IF phase \in {"rooting", "done"} THEN {Tree!Root} ELSE {})
    /\ \A x \in Met \ DOMAIN items : Len(x) = 1 /\ x[1] \in Inherited
    /\ \A x \in Met : Len(x) > 1 => Tree!Parent(x) \in DOMAIN items
    /\ phase \in {"rooting", "done"} => Tree!Root \in DOMAIN items

\* Of an item and what was met, the children are those right below it, once.
Below(x) == {y \in Met : Len(y) > 1 /\ Tree!Parent(y) = x}
Rooted == {met[k] : k \in {k \in 1 .. part - 1 : Tree!Parent(met[k]) = Tree!Root}}
ChildrenOf(x) == IF phase \in {"rooting", "done"} /\ x = Tree!Root THEN Rooted ELSE Below(x)
ItemsMatch ==
    \A x \in DOMAIN items :
        /\ items[x] \in Seq(Indices)
        /\ Distinct(items[x])
        /\ Elements(items[x]) = ChildrenOf(x)

FoldersOK ==
    /\ folders \subseteq DOMAIN items
    /\ phase \in {"rooting", "done"} => \A x \in Met : Tree!Parent(x) \in folders
    /\ phase = "done" => part = Len(met) + 1

TreeInv ==
    LoopsOK /\ MetIndexes /\ ItemsOfMet /\ ItemsMatch /\ FoldersOK /\ Tree!OnlyInheritedThrows

-----------------------------------------------------------------------------

\* A part of a name is an index, and what lies above it is the part before.
LEMMA UptoFacts ==
    ASSUME NEW p \in Indices, NEW n \in 1 .. Len(p)
    PROVE  /\ Tree!Upto(p, n) \in Indices
           /\ Len(Tree!Upto(p, n)) = n
           /\ Tree!Upto(p, n)[1] = p[1]
           /\ n > 1 => Tree!Parent(Tree!Upto(p, n)) = Tree!Upto(p, n - 1)
<1>0. p \in Seq(Parts) /\ Len(p) \in Nat
  BY DEF Indices
<1>1. ASSUME NEW q \in Seq(Parts), NEW m \in 1 .. Len(q)
      PROVE  /\ Tree!Upto(q, m) \in Seq(Parts) /\ Len(Tree!Upto(q, m)) = m
             /\ \A i \in 1 .. m : Tree!Upto(q, m)[i] = q[i]
  <2>1. Len(q) \in Nat /\ \A i \in 1 .. m : q[i] \in Parts
    BY LenProperties
  <2>2. 1 \in Int /\ m \in Int /\ 1 <= m /\ m - 1 + 1 = m
    BY <2>1
  <2>3. /\ SubSeq(q, 1, m) \in Seq(Parts) /\ Len(SubSeq(q, 1, m)) = m
        /\ \A i \in 1 .. m : SubSeq(q, 1, m)[i] = q[1 + i - 1]
    BY <2>1, <2>2, SubSeqProperties
  <2> QED
    BY <2>3 DEF Tree!Upto
<1>2. Tree!Upto(p, n) # <<>>
  BY <1>0, <1>1
<1>3. ASSUME n > 1
      PROVE  Tree!Parent(Tree!Upto(p, n)) = Tree!Upto(p, n - 1)
  <2> DEFINE x == Tree!Upto(p, n)
             a == Tree!Upto(x, n - 1)
             b == Tree!Upto(p, n - 1)
  <2>1. x \in Seq(Parts) /\ Len(x) = n /\ n - 1 \in 1 .. Len(x) /\ n - 1 \in 1 .. Len(p)
    BY <1>0, <1>1, <1>3
  <2>2. a \in Seq(Parts) /\ Len(a) = n - 1 /\ \A i \in 1 .. n - 1 : a[i] = x[i]
    BY <1>1, <2>1
  <2>3. b \in Seq(Parts) /\ Len(b) = n - 1 /\ \A i \in 1 .. n - 1 : b[i] = p[i]
    BY <1>0, <1>1, <2>1
  <2>4. \A i \in 1 .. n - 1 : x[i] = p[i]
    BY <1>0, <1>1
  <2>5. Tree!Parent(x) = a
    BY <1>3, <2>1 DEF Tree!Parent
  <2> HIDE DEF x, a, b
  <2>6. a = b
    BY <2>2, <2>3, <2>4, SeqEqual
  <2> QED
    BY <2>5, <2>6 DEF x, a, b
<1> QED
  BY <1>0, <1>1, <1>2, <1>3 DEF Indices

\* A sequence that is added to has one element more, and none twice.
LEMMA AddedFacts ==
    ASSUME NEW S, NEW s \in Seq(S), NEW x \in S, Distinct(s), x \notin Elements(s)
    PROVE  /\ Append(s, x) \in Seq(S)
           /\ Elements(Append(s, x)) = Elements(s) \cup {x}
           /\ Distinct(Append(s, x))
<1> DEFINE t == Append(s, x)
<1>1. /\ t \in Seq(S) /\ Len(t) = Len(s) + 1 /\ Len(s) \in Nat
      /\ DOMAIN s = 1 .. Len(s) /\ DOMAIN t = 1 .. Len(s) + 1
      /\ \A i \in 1 .. Len(s) : t[i] = s[i]
      /\ t[Len(s) + 1] = x
  BY AppendProperties, LenProperties
<1> HIDE DEF t
<1>2. Elements(t) = Elements(s) \cup {x}
  BY <1>1 DEF Elements
<1>3. Distinct(t)
  <2> SUFFICES ASSUME NEW j \in DOMAIN t, NEW k \in DOMAIN t, t[j] = t[k] PROVE j = k
    BY DEF Distinct
  <2>1. \A i \in DOMAIN s : s[i] # x
    BY DEF Elements
  <2> QED
    BY <1>1, <2>1 DEF Distinct
<1> QED
  BY <1>1, <1>2, <1>3 DEF t

LEMMA AddToFacts ==
    ASSUME NEW S, NEW s \in Seq(S), NEW x \in S, Distinct(s)
    PROVE  /\ Tree!AddTo(s, x) \in Seq(S)
           /\ Elements(Tree!AddTo(s, x)) = Elements(s) \cup {x}
           /\ Distinct(Tree!AddTo(s, x))
<1>1. Tree!Has(s, x) <=> x \in Elements(s)
  BY DEF Tree!Has, Elements
<1>2. CASE x \in Elements(s)
  <2>1. Tree!AddTo(s, x) = s
    BY <1>1, <1>2 DEF Tree!AddTo
  <2> QED
    BY <1>2, <2>1
<1>3. CASE x \notin Elements(s)
  <2>1. Tree!AddTo(s, x) = Append(s, x)
    BY <1>1, <1>3 DEF Tree!AddTo
  <2> QED
    BY <1>3, <2>1, AddedFacts
<1> QED
  BY <1>2, <1>3

LEMMA IndexLen == \A x \in Indices : Len(x) \in Nat \ {0} /\ (Len(x) = 1 \/ Len(x) > 1)
<1>1. \A x \in Indices : Len(x) \in Nat \ {0}
  BY EmptySeq DEF Indices
<1>2. \A n \in Nat \ {0} : n = 1 \/ n > 1
  OBVIOUS
<1> QED
  BY <1>1, <1>2

\* What the loops leave alone.
LEMMA TreeKept ==
    ASSUME UNCHANGED <<listing, path, part, items, met, folders>>
    PROVE  /\ Tree!Listings' = Tree!Listings /\ Tree!Indexes' = Tree!Indexes
           /\ Met' = Met /\ (MetIndexes <=> MetIndexes')
           /\ \A x : Below(x)' = Below(x)
           /\ Rooted' = Rooted
<1>1. Tree!Listings' = Tree!Listings /\ Tree!Indexes' = Tree!Indexes
  BY DEF Tree!Listings, Tree!Indexes
<1>2. Met' = Met
  BY DEF Met
<1>3. MetIndexes <=> MetIndexes'
  BY <1>1, <1>2 DEF MetIndexes
<1>4. \A x : Below(x)' = Below(x)
  BY <1>2 DEF Below
<1>5. Rooted' = Rooted
  BY DEF Rooted, Tree!Root
<1> QED
  BY <1>1, <1>2, <1>3, <1>4, <1>5

\* A listing is of names.
LEMMA ListingFacts ==
    ASSUME Tree!TreeAssumption, LoopsOK
    PROVE  /\ Len(listing) \in Nat /\ DOMAIN listing = 1 .. Len(listing)
           /\ \A k \in 1 .. Len(listing) : listing[k] \in Indices /\ Len(listing[k]) \in Nat \ {0}
<1>1. PICK n \in 0 .. MaxPaths : listing \in [1 .. n -> Paths]
  BY DEF LoopsOK, Tree!Listings
<1>2. n \in Nat /\ Len(listing) = n /\ DOMAIN listing = 1 .. n
  BY <1>1 DEF Tree!TreeAssumption
<1>3. \A k \in 1 .. n : listing[k] \in Indices
  BY <1>1 DEF Tree!TreeAssumption, Indices
<1>4. \A p \in Indices : Len(p) \in Nat \ {0}
  BY EmptySeq DEF Indices
<1> QED
  BY <1>2, <1>3, <1>4

LEMMA InitTreeInv ==
    ASSUME Tree!TreeAssumption, Tree!Init
    PROVE  TreeInv
<1>1. LoopsOK
  <2>1. PICK n \in 0 .. MaxPaths : listing \in [1 .. n -> Paths]
    BY DEF Tree!Init, Tree!Listings
  <2>2. n \in Nat /\ Len(listing) = n
    BY <2>1 DEF Tree!TreeAssumption
  <2>3. n > 0 => listing[1] \in Indices
    BY <2>1, <2>2 DEF Tree!TreeAssumption, Indices
  <2>4. \A p \in Indices : Len(p) \in Nat \ {0}
    BY EmptySeq DEF Indices
  <2>5. 1 <= Len(listing) => 1 \in 1 .. Len(listing[1])
    BY <2>2, <2>3, <2>4
  <2>6. <<>> \in Seq(Indices) /\ Distinct(<<>>)
    BY EmptySeq DEF Distinct
  <2> QED
    BY <2>2, <2>5, <2>6 DEF Tree!Init, LoopsOK
<1>2. Met = {} /\ path = 1 /\ part = 1 /\ DOMAIN items = {} /\ folders = {} /\ phase = "building"
  BY DEF Tree!Init, Met
<1>3. MetIndexes
  BY <1>2 DEF MetIndexes
<1>4. ItemsOfMet /\ ItemsMatch
  BY <1>2 DEF ItemsOfMet, ItemsMatch
<1>5. FoldersOK /\ Tree!OnlyInheritedThrows
  BY <1>2 DEF FoldersOK, Tree!OnlyInheritedThrows
<1> QED
  BY <1>1, <1>3, <1>4, <1>5 DEF TreeInv

-----------------------------------------------------------------------------

\* The index the loops are at: what lies above it has been met.
LEMMA IndexFacts ==
    ASSUME Tree!TreeAssumption, TreeInv, phase = "building", path <= Len(listing),
           NEW x, x = Tree!Index
    PROVE  /\ path \in 1 .. Len(listing) /\ part \in 1 .. Len(listing[path])
           /\ Len(listing[path]) \in Nat /\ part \in Nat \ {0}
           /\ x = Tree!Upto(listing[path], part)
           /\ x \in Indices /\ x \in Tree!Indexes
           /\ Len(x) = part /\ x[1] = listing[path][1]
           /\ part > 1 => Tree!Parent(x) \in Met /\ Len(Tree!Parent(x)) = part - 1
                          /\ Tree!Parent(x)[1] = x[1]
<1>1. LoopsOK /\ MetIndexes
  BY DEF TreeInv
<1>2. /\ Len(listing) \in Nat /\ DOMAIN listing = 1 .. Len(listing)
      /\ \A k \in 1 .. Len(listing) : listing[k] \in Indices /\ Len(listing[k]) \in Nat \ {0}
  BY <1>1, ListingFacts
<1>3. path \in 1 .. Len(listing) /\ part \in 1 .. Len(listing[path])
  BY <1>1, <1>2 DEF LoopsOK
<1> DEFINE p == listing[path]
<1>4. p \in Indices /\ Len(p) \in Nat \ {0} /\ part \in 1 .. Len(p)
  BY <1>2, <1>3
<1>5. x = Tree!Upto(p, part)
  BY DEF Tree!Index
<1>6. x \in Tree!Indexes
  BY <1>2, <1>3, <1>5 DEF Tree!Indexes
<1>7. x \in Indices /\ Len(x) = part /\ x[1] = p[1]
  BY <1>4, <1>5, UptoFacts
<1>8. ASSUME part > 1
      PROVE  /\ Tree!Parent(x) \in Met /\ Len(Tree!Parent(x)) = part - 1
             /\ Tree!Parent(x)[1] = x[1]
  <2>1. Tree!Parent(x) = Tree!Upto(p, part - 1)
    BY <1>4, <1>5, <1>8, UptoFacts
  <2>2. part - 1 \in 1 .. Len(p) /\ part - 1 \in 1 .. part - 1
    BY <1>4, <1>8
  <2>3. Tree!Upto(p, part - 1) \in Met
    BY <1>1, <1>3, <2>2 DEF MetIndexes
  <2>4. Len(Tree!Upto(p, part - 1)) = part - 1 /\ Tree!Upto(p, part - 1)[1] = p[1]
    BY <1>4, <2>2, UptoFacts
  <2> QED
    BY <1>7, <2>1, <2>3, <2>4
<1> QED
  BY <1>2, <1>3, <1>4, <1>5, <1>6, <1>7, <1>8

\* A round of the inner loop: what was met, and the item and the child it makes.
LEMMA AddPartMet ==
    ASSUME Tree!TreeAssumption, TreeInv, Tree!AddPart, NEW x, x = Tree!Index
    PROVE  /\ met' \in Seq(Indices) /\ Distinct(met') /\ Met' = Met \cup {x}
<1>1. x \in Indices /\ met \in Seq(Indices) /\ Distinct(met)
  BY IndexFacts DEF Tree!AddPart, TreeInv, LoopsOK
<1>2. met' = Tree!AddTo(met, x)
  BY DEF Tree!AddPart
<1>3. /\ Tree!AddTo(met, x) \in Seq(Indices) /\ Distinct(Tree!AddTo(met, x))
      /\ Elements(Tree!AddTo(met, x)) = Elements(met) \cup {x}
  BY <1>1, AddToFacts
<1> QED
  BY <1>2, <1>3 DEF Met, Elements

LEMMA AddPartItems ==
    ASSUME Tree!TreeAssumption, TreeInv, Tree!AddPart, NEW x, x = Tree!Index,
           NEW p, p = Tree!Parent(x)
    PROVE  /\ DOMAIN items' = DOMAIN items \cup
                (IF part = 1 /\ x[1] \in Inherited THEN {} ELSE {x})
           /\ part > 1 => p \in DOMAIN items /\ p # x
                          /\ items'[p] = Tree!AddTo(items[p], x)
           /\ \A y \in DOMAIN items : part = 1 \/ y # p => items'[y] = items[y]
           /\ \A y \in DOMAIN items' \ DOMAIN items : y = x /\ items'[y] = <<>>
<1> DEFINE adds == x \notin DOMAIN items /\ ~ (part = 1 /\ x[1] \in Inherited)
           C == Tree!Created
<1>1. /\ DOMAIN C = DOMAIN items \cup (IF adds THEN {x} ELSE {})
      /\ \A y \in DOMAIN items : C[y] = items[y]
      /\ adds => C[x] = <<>>
  BY DEF Tree!Created
<1>2. items' = IF part = 1 THEN C ELSE [C EXCEPT ![p] = Tree!AddTo(C[p], x)]
  BY DEF Tree!AddPart
<1>3. part \in Nat \ {0} /\ Len(x) = part /\ x[1] = listing[path][1]
  BY IndexFacts DEF Tree!AddPart
<1>4. ASSUME part > 1 PROVE p \in DOMAIN items /\ p # x
  <2>1. p \in Met /\ Len(p) = part - 1 /\ p[1] = x[1]
    BY <1>4, IndexFacts DEF Tree!AddPart
  <2>2. part = 2 => x[1] \notin Inherited
    BY <1>3 DEF Tree!AddPart, Tree!Throws
  <2>3. p \notin DOMAIN items => Len(p) = 1 /\ p[1] \in Inherited
    BY <2>1 DEF TreeInv, ItemsOfMet
  <2> QED
    BY <1>3, <1>4, <2>1, <2>2, <2>3
<1> HIDE DEF C
<1>5. CASE part = 1
  <2>1. items' = C
    BY <1>2, <1>5
  <2>2. x \in DOMAIN items => x[1] \notin Inherited \/ x \in DOMAIN items
    OBVIOUS
  <2> QED
    BY <1>1, <1>5, <2>1
<1>6. CASE part > 1
  <2>1. items' = [C EXCEPT ![p] = Tree!AddTo(C[p], x)]
    BY <1>2, <1>6
  <2>2. p \in DOMAIN items /\ p # x /\ C[p] = items[p] /\ p \in DOMAIN C
    BY <1>1, <1>4, <1>6
  <2>3. DOMAIN items' = DOMAIN C /\ items'[p] = Tree!AddTo(C[p], x)
        /\ \A y \in DOMAIN C : y # p => items'[y] = C[y]
    BY <2>1, <2>2
  <2> QED
    BY <1>1, <1>6, <2>2, <2>3
<1> QED
  BY <1>3, <1>5, <1>6

\* It lies below what is above it, and nothing lies below it yet.
LEMMA AddPartBelow ==
    ASSUME Tree!TreeAssumption, TreeInv, Tree!AddPart, NEW x, x = Tree!Index,
           NEW p, p = Tree!Parent(x)
    PROVE  /\ \A y : Below(y)' = Below(y) \cup (IF part > 1 /\ y = p THEN {x} ELSE {})
           /\ x \notin DOMAIN items => Below(x) = {}
<1>1. Met' = Met \cup {x}
  BY AddPartMet
<1>2. part \in Nat \ {0} /\ Len(x) = part
  BY IndexFacts DEF Tree!AddPart
<1>3. \A y : Below(y)' = Below(y) \cup (IF part > 1 /\ y = p THEN {x} ELSE {})
  BY <1>1, <1>2 DEF Below
<1>4. \A z \in Met : Len(z) > 1 => Tree!Parent(z) \in DOMAIN items
  BY DEF TreeInv, ItemsOfMet
<1> QED
  BY <1>3, <1>4 DEF Below

LEMMA AddPartKeeps ==
    ASSUME Tree!TreeAssumption, TreeInv, Tree!AddPart
    PROVE  TreeInv'
<1> PICK x : x = Tree!Index
  OBVIOUS
<1> PICK p : p = Tree!Parent(x)
  OBVIOUS
<1>1. /\ path \in 1 .. Len(listing) /\ part \in 1 .. Len(listing[path])
      /\ Len(listing[path]) \in Nat /\ part \in Nat \ {0}
      /\ x = Tree!Upto(listing[path], part)
      /\ x \in Indices /\ x \in Tree!Indexes
      /\ Len(x) = part /\ x[1] = listing[path][1]
      /\ part > 1 => p \in Met /\ Len(p) = part - 1
  BY IndexFacts DEF Tree!AddPart
<1>2. /\ met' \in Seq(Indices) /\ Distinct(met') /\ Met' = Met \cup {x}
  BY AddPartMet
<1>3. /\ Len(listing) \in Nat /\ DOMAIN listing = 1 .. Len(listing)
      /\ \A k \in 1 .. Len(listing) : listing[k] \in Indices /\ Len(listing[k]) \in Nat \ {0}
  BY ListingFacts DEF TreeInv
<1>4. listing' = listing /\ phase = "building" /\ phase' = "building" /\ folders' = folders
  BY DEF Tree!AddPart
<1>5. \/ part < Len(listing[path]) /\ part' = part + 1 /\ path' = path
      \/ part = Len(listing[path]) /\ part' = 1 /\ path' = path + 1
  BY <1>1 DEF Tree!AddPart, Tree!Advance
<1>6. LoopsOK'
  <2>1. path' \in 1 .. Len(listing) + 1
    BY <1>1, <1>3, <1>5
  <2>2. path' <= Len(listing) => part' \in 1 .. Len(listing[path'])
    BY <1>1, <1>3, <1>5, <2>1
  <2> QED
    BY <1>2, <1>4, <2>1, <2>2 DEF LoopsOK, TreeInv
<1>7. MetIndexes'
  <2> USE DEF MetIndexes
  <2>1. Tree!Indexes' = Tree!Indexes
    BY <1>4 DEF Tree!Indexes
  <2>2. MetIndexes
    BY DEF TreeInv
  <2>3. \A n \in 1 .. part : Tree!Upto(listing[path], n) \in Met'
    BY <1>1, <1>2, <2>2
  <2>4. CASE part < Len(listing[path]) /\ part' = part + 1 /\ path' = path
    BY <1>1, <1>2, <1>4, <2>1, <2>2, <2>3, <2>4
  <2>5. CASE part = Len(listing[path]) /\ part' = 1 /\ path' = path + 1
    <3>1. \A k \in 1 .. path' - 1 : k = path \/ k \in 1 .. path - 1
      BY <1>1, <2>5
    <3>2. \A k \in 1 .. path' - 1 : \A n \in 1 .. Len(listing[k]) :
                Tree!Upto(listing[k], n) \in Met'
      BY <1>2, <2>2, <2>3, <2>5, <3>1
    <3>3. \A n \in 1 .. part' - 1 : FALSE
      BY <2>5
    <3> QED
      BY <1>1, <1>2, <1>4, <2>1, <2>2, <3>2, <3>3
  <2> QED
    BY <1>5, <2>4, <2>5
<1>8. /\ DOMAIN items' = DOMAIN items \cup
            (IF part = 1 /\ x[1] \in Inherited THEN {} ELSE {x})
      /\ part > 1 => p \in DOMAIN items /\ p # x
                      /\ items'[p] = Tree!AddTo(items[p], x)
      /\ \A y \in DOMAIN items : part = 1 \/ y # p => items'[y] = items[y]
      /\ \A y \in DOMAIN items' \ DOMAIN items : y = x /\ items'[y] = <<>>
  BY AddPartItems
<1>9. ItemsOfMet'
  <2>0. ItemsOfMet
    BY DEF TreeInv
  <2>1. DOMAIN items' \subseteq Met'
    BY <1>2, <1>4, <1>8, <2>0 DEF ItemsOfMet
  <2>2. \A y \in Met' \ DOMAIN items' : Len(y) = 1 /\ y[1] \in Inherited
    BY <1>1, <1>2, <1>8, <2>0 DEF ItemsOfMet
  <2>3. \A y \in Met' : Len(y) > 1 => Tree!Parent(y) \in DOMAIN items'
    BY <1>1, <1>2, <1>8, <2>0 DEF ItemsOfMet
  <2> QED
    BY <1>4, <2>1, <2>2, <2>3 DEF ItemsOfMet
<1>10. ItemsMatch'
  <2>1. /\ \A y : Below(y)' = Below(y) \cup (IF part > 1 /\ y = p THEN {x} ELSE {})
        /\ x \notin DOMAIN items => Below(x) = {}
    BY AddPartBelow
  <2>2. \A y \in DOMAIN items : /\ items[y] \in Seq(Indices) /\ Distinct(items[y])
                                /\ Elements(items[y]) = Below(y)
    BY <1>4 DEF TreeInv, ItemsMatch, ChildrenOf
  <2>3. SUFFICES ASSUME NEW y \in DOMAIN items'
                 PROVE  /\ items'[y] \in Seq(Indices) /\ Distinct(items'[y])
                        /\ Elements(items'[y]) = Below(y)'
    BY <1>4 DEF ItemsMatch, ChildrenOf, Distinct, Elements
  <2>4. CASE y \notin DOMAIN items
    <3>1. y = x /\ items'[y] = <<>>
      BY <1>8, <2>4
    <3>2. Below(y)' = {}
      BY <1>8, <2>1, <2>4, <3>1
    <3>3. <<>> \in Seq(Indices) /\ Distinct(<<>>) /\ Elements(<<>>) = {}
      BY EmptySeq DEF Distinct, Elements
    <3> QED
      BY <3>1, <3>2, <3>3
  <2>5. CASE y \in DOMAIN items /\ (part = 1 \/ y # p)
    <3>1. items'[y] = items[y]
      BY <1>8, <2>5
    <3>2. Below(y)' = Below(y)
      <4>1. ~ (part > 1 /\ y = p)
        BY <1>1, <2>5
      <4>2. Below(y)' = Below(y) \cup {}
        BY <2>1, <4>1
      <4>3. \A S : S \cup {} = S
        OBVIOUS
      <4> QED
        BY <4>2, <4>3
    <3> QED
      BY <2>2, <2>5, <3>1, <3>2
  <2>6. CASE y \in DOMAIN items /\ part > 1 /\ y = p
    <3>1. items'[y] = Tree!AddTo(items[y], x)
      BY <1>8, <2>6
    <3>2. Below(y)' = Below(y) \cup {x}
      BY <2>1, <2>6
    <3>3. items[y] \in Seq(Indices) /\ Distinct(items[y]) /\ Elements(items[y]) = Below(y)
      BY <2>2, <2>6
    <3> QED
      BY <1>1, <3>1, <3>2, <3>3, AddToFacts
  <2> QED
    BY <1>1, <2>4, <2>5, <2>6
<1>11. FoldersOK'
  BY <1>4, <1>8 DEF TreeInv, FoldersOK
<1>12. Tree!OnlyInheritedThrows'
  BY <1>4 DEF Tree!OnlyInheritedThrows
<1> QED
  BY <1>6, <1>7, <1>9, <1>10, <1>11, <1>12 DEF TreeInv

LEMMA ThrowKeeps ==
    ASSUME Tree!TreeAssumption, TreeInv, Tree!Throw
    PROVE  TreeInv'
<1>1. /\ phase = "building" /\ phase' = "thrown" /\ path <= Len(listing) /\ part = 2
      /\ listing[path][1] \in Inherited
      /\ UNCHANGED <<listing, path, part, items, met, folders>>
  BY DEF Tree!Throw, Tree!Throws
<1>2. LoopsOK' /\ MetIndexes'
  BY <1>1, TreeKept DEF TreeInv, LoopsOK, Distinct
<1>3. ItemsOfMet' /\ FoldersOK'
  BY <1>1 DEF TreeInv, ItemsOfMet, FoldersOK, Met
<1>4. ItemsMatch'
  BY <1>1 DEF TreeInv, ItemsMatch, ChildrenOf, Below, Met, Distinct, Elements
<1>5. Tree!OnlyInheritedThrows'
  <2>1. /\ Len(listing) \in Nat /\ DOMAIN listing = 1 .. Len(listing)
        /\ \A k \in 1 .. Len(listing) : Len(listing[k]) \in Nat
    BY ListingFacts DEF TreeInv
  <2>2. path \in 1 .. Len(listing) /\ part \in 1 .. Len(listing[path])
    BY <1>1, <2>1 DEF TreeInv, LoopsOK
  <2> QED
    BY <1>1, <2>1, <2>2 DEF Tree!OnlyInheritedThrows
<1> QED
  BY <1>2, <1>3, <1>4, <1>5 DEF TreeInv

\* The folders are the items with something below them, and what lies right
\* below the root item, which replaces one of its key, comes after that.
LEMMA SetRootKeeps ==
    ASSUME Tree!TreeAssumption, TreeInv, Tree!SetRoot
    PROVE  TreeInv'
<1>1. /\ phase = "building" /\ phase' = "rooting" /\ path > Len(listing) /\ part' = 1
      /\ UNCHANGED <<listing, path, met>>
      /\ folders' = {index \in DOMAIN items : items[index] # <<>>} \cup {Tree!Root}
      /\ items' = [index \in DOMAIN items \cup {Tree!Root} |->
                        IF index = Tree!Root THEN <<>> ELSE items[index]]
  BY DEF Tree!SetRoot
<1>2. Len(listing) \in Nat /\ path = Len(listing) + 1
  BY <1>1, ListingFacts DEF TreeInv, LoopsOK
<1>3. Len(met) \in Nat /\ Met' = Met
  BY <1>1, LenProperties DEF TreeInv, LoopsOK, Met
<1>4. LoopsOK'
  <2>1. listing' \in Tree!Listings'
    BY <1>1 DEF TreeInv, LoopsOK, Tree!Listings
  <2> QED
    BY <1>1, <1>2, <1>3, <2>1 DEF TreeInv, LoopsOK, Distinct
<1>5. MetIndexes'
  BY <1>1, <1>2, <1>3 DEF TreeInv, MetIndexes, Tree!Indexes
<1>6. ItemsOfMet'
  BY <1>1, <1>3 DEF TreeInv, ItemsOfMet
<1>7. ItemsMatch'
  <2>1. SUFFICES ASSUME NEW x \in DOMAIN items'
                 PROVE  /\ items'[x] \in Seq(Indices) /\ Distinct(items'[x])
                        /\ Elements(items'[x]) = ChildrenOf(x)'
    BY DEF ItemsMatch, Distinct, Elements
  <2>2. CASE x = Tree!Root
    <3>1. items'[x] = <<>>
      BY <1>1, <2>2
    <3>2. ChildrenOf(x)' = {}
      BY <1>1, <2>2 DEF ChildrenOf, Rooted
    <3>3. <<>> \in Seq(Indices) /\ Distinct(<<>>) /\ Elements(<<>>) = {}
      BY EmptySeq DEF Distinct, Elements
    <3> QED
      BY <3>1, <3>2, <3>3
  <2>3. CASE x # Tree!Root
    <3>1. x \in DOMAIN items /\ items'[x] = items[x]
      BY <1>1, <2>3
    <3>2. ChildrenOf(x)' = Below(x)
      BY <1>3, <2>3 DEF ChildrenOf, Below, Tree!Root
    <3>3. ChildrenOf(x) = Below(x)
      BY <1>1 DEF ChildrenOf
    <3> QED
      BY <3>1, <3>2, <3>3 DEF TreeInv, ItemsMatch
  <2> QED
    BY <2>2, <2>3
<1>8. FoldersOK'
  <2>1. folders' \subseteq DOMAIN items'
    BY <1>1
  <2>2. ASSUME NEW x \in Met
        PROVE  Tree!Parent(x) \in folders'
    <3>0. x \in Indices
      <4>1. met \in Seq(Indices)
        BY DEF TreeInv, LoopsOK
      <4>2. DOMAIN met = 1 .. Len(met) /\ \A k \in 1 .. Len(met) : met[k] \in Indices
        BY <4>1, LenProperties
      <4> QED
        BY <4>2 DEF Met
    <3>1. CASE Len(x) = 1
      BY <1>1, <3>1 DEF Tree!Parent
    <3>2. CASE Len(x) > 1
      <4>2. Tree!Parent(x) \in DOMAIN items
        BY <3>2 DEF TreeInv, ItemsOfMet
      <4>3. x \in Below(Tree!Parent(x))
        BY <3>2 DEF Below
      <4>4. x \in Elements(items[Tree!Parent(x)])
        BY <1>1, <4>2, <4>3 DEF TreeInv, ItemsMatch, ChildrenOf
      <4>5. items[Tree!Parent(x)] # <<>>
        BY <4>4 DEF Elements
      <4> QED
        BY <1>1, <4>2, <4>5
    <3>3. Len(x) = 1 \/ Len(x) > 1
      BY <3>0, IndexLen
    <3> QED
      BY <3>1, <3>2, <3>3
  <2> QED
    BY <1>1, <1>3, <2>1, <2>2 DEF FoldersOK
<1>9. Tree!OnlyInheritedThrows'
  BY <1>1 DEF Tree!OnlyInheritedThrows
<1> QED
  BY <1>4, <1>5, <1>6, <1>7, <1>8, <1>9 DEF TreeInv

\* The next index of the parentMap is a child of the root item, or is not.
LEMMA AddRootChildKeeps ==
    ASSUME Tree!TreeAssumption, TreeInv, Tree!AddRootChild
    PROVE  TreeInv'
<1> DEFINE x == met[part]
<1>1. /\ phase = "rooting" /\ phase' = "rooting" /\ part <= Len(met) /\ part' = part + 1
      /\ UNCHANGED <<listing, path, met, folders>>
      /\ items' = IF Tree!Parent(x) = Tree!Root
                  THEN [items EXCEPT ![Tree!Root] = Append(@, x)] ELSE items
  BY DEF Tree!AddRootChild, Tree!AddRootChildWhere
<1>2. /\ Len(met) \in Nat /\ part \in 1 .. Len(met) /\ DOMAIN met = 1 .. Len(met)
      /\ \A k \in 1 .. Len(met) : met[k] \in Indices
      /\ Distinct(met)
  BY <1>1, LenProperties DEF TreeInv, LoopsOK
<1>3. Met' = Met
  BY <1>1 DEF Met
<1>4. LoopsOK'
  <2>1. listing' \in Tree!Listings'
    BY <1>1 DEF TreeInv, LoopsOK, Tree!Listings
  <2>2. Len(listing) \in Nat /\ path = Len(listing) + 1
    BY <1>1, ListingFacts DEF TreeInv, LoopsOK
  <2> QED
    BY <1>1, <1>2, <2>1, <2>2 DEF TreeInv, LoopsOK, Distinct
<1>5. MetIndexes'
  <2>2. Len(listing) \in Nat /\ path = Len(listing) + 1
    BY <1>1, ListingFacts DEF TreeInv, LoopsOK
  <2> QED
    BY <1>1, <1>3, <2>2 DEF TreeInv, MetIndexes, Tree!Indexes
<1>6. Tree!Root \in DOMAIN items /\ DOMAIN items' = DOMAIN items
  BY <1>1 DEF TreeInv, ItemsOfMet
<1>7. ItemsOfMet'
  BY <1>1, <1>3, <1>6 DEF TreeInv, ItemsOfMet
<1>8. /\ items[Tree!Root] \in Seq(Indices) /\ Distinct(items[Tree!Root])
      /\ Elements(items[Tree!Root]) = Rooted
  BY <1>1, <1>6 DEF TreeInv, ItemsMatch, ChildrenOf
<1>9. Rooted' = Rooted \cup (IF Tree!Parent(x) = Tree!Root THEN {x} ELSE {})
  <2>1. 1 .. part' - 1 = (1 .. part - 1) \cup {part}
    BY <1>1, <1>2
  <2>2. Tree!Root' = Tree!Root
    BY DEF Tree!Root
  <2> QED
    BY <1>1, <2>1, <2>2 DEF Rooted
<1>10. x \notin Rooted
  <2>1. \A k \in 1 .. part - 1 : k \in 1 .. Len(met) /\ k # part
    BY <1>2
  <2>2. \A k \in 1 .. part - 1 : met[k] # met[part]
    BY <1>2, <2>1 DEF Distinct
  <2> QED
    BY <2>2 DEF Rooted
<1>11. /\ items'[Tree!Root] \in Seq(Indices) /\ Distinct(items'[Tree!Root])
       /\ Elements(items'[Tree!Root]) = Rooted'
  <2>1. CASE Tree!Parent(x) = Tree!Root
    <3>1. items'[Tree!Root] = Append(items[Tree!Root], x)
      BY <1>1, <1>6, <2>1
    <3>2. x \in Indices
      BY <1>2
    <3>3. x \notin Elements(items[Tree!Root])
      BY <1>8, <1>10
    <3> HIDE DEF x
    <3>4. /\ Append(items[Tree!Root], x) \in Seq(Indices)
          /\ Elements(Append(items[Tree!Root], x)) = Elements(items[Tree!Root]) \cup {x}
          /\ Distinct(Append(items[Tree!Root], x))
      BY <1>8, <3>2, <3>3, AddedFacts
    <3> QED
      BY <1>8, <1>9, <2>1, <3>1, <3>4
  <2>2. CASE Tree!Parent(x) # Tree!Root
    <3>1. items' = items
      BY <1>1, <2>2
    <3>2. Rooted' = Rooted \cup {}
      BY <1>9, <2>2
    <3>3. Rooted' = Rooted
      BY <3>2
    <3> QED
      BY <1>8, <3>1, <3>3
  <2> QED
    BY <2>1, <2>2
<1>12. ItemsMatch'
  <2>1. SUFFICES ASSUME NEW y \in DOMAIN items'
                 PROVE  /\ items'[y] \in Seq(Indices) /\ Distinct(items'[y])
                        /\ Elements(items'[y]) = ChildrenOf(y)'
    BY DEF ItemsMatch, Distinct, Elements
  <2>2. Tree!Root' = Tree!Root
    BY DEF Tree!Root
  <2>3. CASE y = Tree!Root
    BY <1>1, <1>11, <2>2, <2>3 DEF ChildrenOf
  <2>4. CASE y # Tree!Root
    <3>1. items'[y] = items[y] /\ y \in DOMAIN items
      BY <1>1, <1>6, <2>4
    <3>2. ChildrenOf(y)' = Below(y) /\ ChildrenOf(y) = Below(y)
      BY <1>3, <2>2, <2>4 DEF ChildrenOf, Below
    <3> QED
      BY <3>1, <3>2 DEF TreeInv, ItemsMatch
  <2> QED
    BY <2>3, <2>4
<1>13. FoldersOK'
  BY <1>1, <1>3, <1>6 DEF TreeInv, FoldersOK
<1>14. Tree!OnlyInheritedThrows'
  BY <1>1 DEF Tree!OnlyInheritedThrows
<1> QED
  BY <1>4, <1>5, <1>7, <1>12, <1>13, <1>14 DEF TreeInv

LEMMA FinishKeeps ==
    ASSUME Tree!TreeAssumption, TreeInv, Tree!Finish
    PROVE  TreeInv'
<1>1. /\ phase = "rooting" /\ phase' = "done" /\ part > Len(met)
      /\ UNCHANGED <<listing, path, part, items, met, folders>>
  BY DEF Tree!Finish
<1>2. Len(met) \in Nat /\ part = Len(met) + 1
  BY <1>1, LenProperties DEF TreeInv, LoopsOK
<1>3. LoopsOK' /\ MetIndexes'
  BY <1>1, <1>2, TreeKept DEF TreeInv, LoopsOK, Distinct
<1>4. ItemsOfMet' /\ FoldersOK'
  BY <1>1, <1>2 DEF TreeInv, ItemsOfMet, FoldersOK, Met
<1>5. ItemsMatch'
  <2>1. \A x : ChildrenOf(x)' = ChildrenOf(x)
    BY <1>1 DEF ChildrenOf, Below, Rooted, Met
  <2> QED
    BY <1>1, <2>1 DEF TreeInv, ItemsMatch, Distinct, Elements
<1>6. Tree!OnlyInheritedThrows'
  BY <1>1 DEF Tree!OnlyInheritedThrows
<1> QED
  BY <1>3, <1>4, <1>5, <1>6 DEF TreeInv

LEMMA StepTreeInv ==
    ASSUME Tree!TreeAssumption, TreeInv, [Tree!Next]_(Tree!vars)
    PROVE  TreeInv'
<1>1. CASE UNCHANGED Tree!vars
  <2>1. UNCHANGED <<listing, path, part, items, met, folders>> /\ phase' = phase
    BY <1>1 DEF Tree!vars
  <2>2. LoopsOK' /\ MetIndexes'
    BY <2>1, TreeKept DEF TreeInv, LoopsOK, Distinct
  <2>3. ItemsOfMet' /\ FoldersOK' /\ Tree!OnlyInheritedThrows'
    BY <2>1, TreeKept DEF TreeInv, ItemsOfMet, FoldersOK, Tree!OnlyInheritedThrows
  <2>4. \A x : ChildrenOf(x)' = ChildrenOf(x)
    BY <2>1, TreeKept DEF ChildrenOf
  <2>5. ItemsMatch'
    BY <2>1, <2>4 DEF TreeInv, ItemsMatch, Distinct, Elements
  <2> QED
    BY <2>2, <2>3, <2>5 DEF TreeInv
<1> QED
  BY <1>1, AddPartKeeps, ThrowKeeps, SetRootKeeps, AddRootChildKeeps, FinishKeeps DEF Tree!Next

\* When it is done, all names have been through the loops.
LEMMA TreeInvSays ==
    ASSUME Tree!TreeAssumption, TreeInv
    PROVE  Tree!TreeCorrect /\ Tree!TypeOK
<1>1. /\ Len(listing) \in Nat /\ DOMAIN listing = 1 .. Len(listing)
      /\ \A k \in 1 .. Len(listing) : listing[k] \in Indices /\ Len(listing[k]) \in Nat \ {0}
  BY ListingFacts DEF TreeInv
<1>2. /\ Len(met) \in Nat /\ DOMAIN met = 1 .. Len(met)
      /\ \A k \in 1 .. Len(met) : met[k] \in Indices
  BY LenProperties DEF TreeInv, LoopsOK
<1>3. ASSUME phase = "done"
      PROVE  /\ Met = Tree!Indexes
             /\ \A k \in 1 .. Len(listing) : \A n \in 1 .. Len(listing[k]) :
                    Tree!Upto(listing[k], n) \in Met
             /\ \A y \in DOMAIN items : Elements(items[y]) = {x \in Met : Tree!Parent(x) = y}
             /\ \A x \in Met : Tree!Parent(x) \in DOMAIN items /\ Tree!Parent(x) \in folders
  <2>1. path - 1 = Len(listing) /\ part - 1 = Len(met)
    BY <1>1, <1>2, <1>3 DEF TreeInv, LoopsOK, FoldersOK
  <2>2. \A k \in 1 .. Len(listing) : \A n \in 1 .. Len(listing[k]) : Tree!Upto(listing[k], n) \in Met
    BY <2>1 DEF TreeInv, MetIndexes
  <2>3. Met = Tree!Indexes
    BY <1>1, <2>2 DEF TreeInv, MetIndexes, Tree!Indexes
  <2>4. Rooted = {x \in Met : Tree!Parent(x) = Tree!Root}
    BY <1>2, <2>1 DEF Rooted, Met
  <2>5. ASSUME NEW x \in Met, Tree!Parent(x) # Tree!Root
        PROVE  Len(x) > 1
    <3>1. x \in Indices
      BY <1>2 DEF Met
    <3>2. Len(x) \in Nat \ {0} /\ Len(x) # 1
      BY <2>5, <3>1, IndexLen DEF Tree!Parent
    <3> QED
      BY <3>2
  <2>6. \A y : y # Tree!Root => Below(y) = {x \in Met : Tree!Parent(x) = y}
    BY <2>5 DEF Below
  <2>7. \A y \in DOMAIN items : Elements(items[y]) = {x \in Met : Tree!Parent(x) = y}
    BY <1>3, <2>4, <2>6 DEF TreeInv, ItemsMatch, ChildrenOf
  <2> QED
    BY <1>3, <2>2, <2>3, <2>7 DEF TreeInv, FoldersOK
<1>4. Tree!TreeMatches
  BY <1>3 DEF Tree!TreeMatches, TreeInv, ItemsMatch, Elements, Distinct
<1>5. Tree!FilesReachable
  <2> SUFFICES ASSUME phase = "done", NEW k \in 1 .. Len(listing), NEW n \in 1 .. Len(listing[k]),
                      NEW x, x = Tree!Upto(listing[k], n)
               PROVE  Tree!Has(items[Tree!Parent(x)], x) /\ Tree!Parent(x) \in folders
    BY <1>1 DEF Tree!FilesReachable
  <2>1. x \in Met
    BY <1>3
  <2>2. x \in Elements(items[Tree!Parent(x)]) /\ Tree!Parent(x) \in folders
    BY <1>3, <2>1
  <2> QED
    BY <2>2 DEF Tree!Has, Elements
<1>6. Tree!TreeCorrect
  BY <1>4, <1>5 DEF Tree!TreeCorrect, TreeInv
<1>7. Tree!TypeOK
  <2>1. /\ listing \in Tree!Listings /\ path \in 1 .. Len(listing) + 1
        /\ path <= Len(listing) => part \in 1 .. Len(listing[path])
        /\ phase \in {"building", "rooting", "done", "thrown"}
        /\ \A k \in DOMAIN met : met[k] \in Seq(Parts) \ {<<>>}
        /\ folders \subseteq DOMAIN items
    BY <1>2 DEF TreeInv, LoopsOK, FoldersOK, Indices
  <2>2. Tree!Root \in Indices
    BY DEF Tree!Root, Tree!TreeAssumption, Indices
  <2>3. \A index \in DOMAIN items : index \in Indices
    BY <1>2, <2>2 DEF TreeInv, ItemsOfMet, Met
  <2>4. ASSUME NEW y \in DOMAIN items
        PROVE  items[y] \in Seq(DOMAIN items \cup {<<c>> : c \in Inherited})
    <3> DEFINE T == DOMAIN items \cup {<<c>> : c \in Inherited}
    <3>0. phase \in {"rooting", "done"} => Rooted \subseteq Met
      <4>1. phase \in {"rooting", "done"} => \A k \in 1 .. part - 1 : k \in DOMAIN met
        BY <1>2 DEF TreeInv, LoopsOK
      <4> QED
        BY <4>1 DEF Rooted, Met
    <3>1. items[y] \in Seq(Indices) /\ Elements(items[y]) \subseteq Met
      BY <3>0 DEF TreeInv, ItemsMatch, ChildrenOf, Below
    <3>2. Met \subseteq T
      <4> SUFFICES ASSUME NEW x \in Met, x \notin DOMAIN items
                   PROVE  x \in {<<c>> : c \in Inherited}
        OBVIOUS
      <4>1. Len(x) = 1 /\ x[1] \in Inherited /\ x \in Seq(Parts)
        BY <1>2 DEF TreeInv, ItemsOfMet, Met, Indices
      <4>2. x = <<x[1]>>
        BY <4>1
      <4> QED
        BY <4>1, <4>2
    <3>3. Len(items[y]) \in Nat /\ DOMAIN items[y] = 1 .. Len(items[y])
      BY <3>1, LenProperties
    <3>4. items[y] = [k \in 1 .. Len(items[y]) |-> items[y][k]]
      BY <3>1, <3>3
    <3>5. \A k \in 1 .. Len(items[y]) : items[y][k] \in T
      BY <3>1, <3>2, <3>3 DEF Elements
    <3> HIDE DEF T
    <3>6. items[y] \in Seq(T)
      BY <3>1, <3>3, <3>5, SeqDef
    <3> QED
      BY <3>6 DEF T
  <2> QED
    BY <2>1, <2>3, <2>4 DEF Tree!TypeOK, Indices
<1> QED
  BY <1>6, <1>7

LEMMA TreeAlways == Spec => [](tab = "tree" => TreeInv)
<1> DEFINE Inv == tab = "tree" => TreeInv
<1>0. Tree!TreeAssumption
  BY PagesAssumption
<1>1. Init => Inv
  BY <1>0, PageStarts, InitTreeInv
<1>2. Inv /\ [Next]_vars => Inv'
  BY <1>0, PageSteps, StepTreeInv
<1> QED
  BY <1>1, <1>2, PTL DEF Spec

\* fileTree.ts: whatever the listing, the tree has every file once, below the
\* folders of its name.
THEOREM TreeIsComplete == Spec => []TreeCorrect
<1> DEFINE Inv == tab = "tree" => TreeInv
<1>0. Tree!TreeAssumption
  BY PagesAssumption
<1>1. Inv => TreeCorrect
  BY <1>0, TreeInvSays DEF TreeCorrect
<1> QED
  BY <1>1, TreeAlways, PTL

-----------------------------------------------------------------------------
(* All pages *)

\* Type correctness of whichever page is shown.
THEOREM PagesTyped == Spec => []TypeOK
<1> DEFINE CreatorPart == tab = "creator" => CreatorInv
           FilesPart == tab = "files" => FilesInv
           TreePart == tab = "tree" => TreeInv
           AccountsPart == tab = "accounts" => Accounts!TypeOK
           DashboardPart == tab = "dashboard" => Dashboard!TypeOK
           VersionsPart == tab = "versions" => Versions!TypeOK
<1>1. Creator!CreatorAssumption /\ Files!FilesAssumption /\ Tree!TreeAssumption
  BY PagesAssumption
<1>2. CreatorPart /\ FilesPart /\ TreePart /\ AccountsPart /\ DashboardPart /\ VersionsPart => TypeOK
  BY <1>1, CreatorInvSays, FilesInvSays, TreeInvSays DEF TypeOK
<1> QED
  BY <1>2, CreatorAlways, FilesAlways, TreeAlways, AccountsAreTyped, DashboardTyped, VersionsTyped, PTL
=============================================================================
