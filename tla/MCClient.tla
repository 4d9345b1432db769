------------------------------ MODULE MCClient ------------------------------
(* The parts of the web client, and the accounts behind its login form, for  *)
(* TLC: each behaviour is of one part, and leaves the others as they start.  *)
(* The parts share no state but what the server has.                         *)
EXTENDS Dialogs, ActivityList, GroupRoutes, ScanWizard, AmountField, PeopleFields, Accounts

VARIABLE part    \* the part that a behaviour is of

MCOpSets ==
  {{"createExpense", "deleteExpense"}, {"updateExpense", "addMember"},
   {"createTransfer"}, {"createConversion", "getExchangeRate"}, {"createConversions"},
   {"createRecurring"}, {"updateWeight"}, {"createGroup", "setPinned"}, {"uploadImage"}}
MCFilters == {{1, 2, 3}, {2}}
MCAmountTexts == {<<"2">>, <<"0", ".", "2">>}
MCBrowserOf == [t \in Tabs |-> "browser"]

-----------------------------------------------------------------------------
\* A part that has not been opened.

DialogsIdle == offered = (CHOOSE s \in OpSets : TRUE) /\ DialogsInit
ActivityIdle ==
  /\ group = (CHOOSE g \in ListGroups : TRUE)
  /\ entries = {}
  /\ filters = (CHOOSE f \in Filters : TRUE)
  /\ ActivityInit
RoutesIdle == life = [g \in RouteGroups |-> "unborn"] /\ RoutesInit
WizardIdle == WizardInit
AmountIdle == amount = Undefined /\ AmountInit
PeopleIdle == roster = {Me} /\ standard = (CHOOSE m \in Money : TRUE) /\ PeopleInit
AccountsIdle == role = [u \in Users |-> "none"] /\ AccountsInit

Parts == {"dialogs", "activity", "routes", "wizard", "amount", "people", "accounts"}

Init ==
  /\ part \in Parts
  /\ IF part = "dialogs" THEN DialogsInit ELSE DialogsIdle
  /\ IF part = "activity" THEN ActivityInit ELSE ActivityIdle
  /\ IF part = "routes" THEN RoutesInit ELSE RoutesIdle
  /\ IF part = "wizard" THEN WizardInit ELSE WizardIdle
  /\ IF part = "amount" THEN AmountInit ELSE AmountIdle
  /\ IF part = "people" THEN PeopleInit ELSE PeopleIdle
  /\ IF part = "accounts" THEN AccountsInit ELSE AccountsIdle

DialogsStep ==
  /\ part = "dialogs" /\ DialogsNext
  /\ UNCHANGED <<activityVars, routesVars, wizardVars, amountVars, peopleVars, accountsVars>>
ActivityStep ==
  /\ part = "activity" /\ ActivityNext
  /\ UNCHANGED <<dialogsVars, routesVars, wizardVars, amountVars, peopleVars, accountsVars>>
RoutesStep ==
  /\ part = "routes" /\ RoutesNext
  /\ UNCHANGED <<dialogsVars, activityVars, wizardVars, amountVars, peopleVars, accountsVars>>
WizardStep ==
  /\ part = "wizard" /\ WizardNext
  /\ UNCHANGED <<dialogsVars, activityVars, routesVars, amountVars, peopleVars, accountsVars>>
AmountStep ==
  /\ part = "amount" /\ AmountNext
  /\ UNCHANGED <<dialogsVars, activityVars, routesVars, wizardVars, peopleVars, accountsVars>>
PeopleStep ==
  /\ part = "people" /\ PeopleNext
  /\ UNCHANGED <<dialogsVars, activityVars, routesVars, wizardVars, amountVars, accountsVars>>
AccountsStep ==
  /\ part = "accounts" /\ AccountsNext
  /\ UNCHANGED <<dialogsVars, activityVars, routesVars, wizardVars, amountVars, peopleVars>>

Next ==
  /\ UNCHANGED part
  /\ \/ DialogsStep
     \/ ActivityStep
     \/ RoutesStep
     \/ WizardStep
     \/ AmountStep
     \/ PeopleStep
     \/ AccountsStep

Spec == Init /\ [][Next]_<<part, dialogsVars, activityVars, routesVars, wizardVars, amountVars,
                           peopleVars, accountsVars>>

-----------------------------------------------------------------------------
\* The part that moves keeps the types it declares.
TypeOK ==
  /\ part \in Parts
  /\ part = "dialogs" => DialogsTypeOK
  /\ part = "activity" => ActivityTypeOK
  /\ part = "routes" => RoutesTypeOK
  /\ part = "wizard" => WizardTypeOK
  /\ part = "amount" => AmountTypeOK
  /\ part = "people" => PeopleTypeOK
  /\ part = "accounts" => AccountsTypeOK
=============================================================================
