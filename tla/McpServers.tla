------------------------------ MODULE McpServers -------------------------------
(***************************************************************************)
(* The panel of MCP servers: the list, its switches and deletions, and a   *)
(* dialog that adds a server or edits one.  A configuration is a number    *)
(* for the command or URL and one for the secrets (env, headers); 0 is     *)
(* none.  The list never brings the secrets.                               *)
(***************************************************************************)
EXTENDS Integers

CONSTANTS
  Servers,       \* names a user may give
  GlobalServer,  \* one that is global, and read-only
  FirstServer,   \* one the user has at first, with secrets
  MaxConfigs,    \* bound: configurations typed
  MaxMcpCalls    \* bound: mutations sent

ASSUME ServersAssumption == GlobalServer \in Servers /\ FirstServer \in Servers \ {GlobalServer}
ASSUME McpBounds == MaxConfigs \in Nat \ {0} /\ MaxMcpCalls \in Nat

VARIABLES
  mcRows,     \* user_mcps: command, secrets, enabled; command 0: no row
  mcList,     \* cached list
  mcAsked,    \* the list is asked for
  mcDialog,   \* the dialog
  mcNet,      \* mutations under way
  mcConfigs, mcCalls,
  mcOdd       \* mutations overlapped

mcVars == <<mcRows, mcList, mcAsked, mcDialog, mcNet, mcConfigs, mcCalls, mcOdd>>

NoServer == [command |-> 0, secrets |-> 0, enabled |-> FALSE]
ServersListed(rows) == [s \in Servers |-> [rows[s] EXCEPT !.secrets = 0]]
NoDialog == [open |-> FALSE, target |-> GlobalServer, command |-> 0, secrets |-> 0]

InitMcp ==
  /\ mcRows = [s \in Servers |->
       IF s = FirstServer THEN [command |-> 1, secrets |-> 1, enabled |-> TRUE]
       ELSE IF s = GlobalServer THEN [command |-> 1, secrets |-> 0, enabled |-> TRUE]
       ELSE NoServer]
  /\ mcList = [s \in Servers |-> NoServer] /\ mcAsked = TRUE
  /\ mcDialog = NoDialog /\ mcNet = {} /\ mcConfigs = 1 /\ mcCalls = 0 /\ mcOdd = FALSE

\* The rows, of which the global ones have no buttons; the open dialog covers them.
OfferedFor(s) ==
  IF mcList[s].command = 0 \/ s = GlobalServer \/ mcDialog.open THEN {}
  ELSE {"switch", "edit", "delete"}

Valid == mcDialog.command # 0
DialogControls ==
  IF ~ mcDialog.open THEN {}
  ELSE {"cancel", "type"} \cup {c \in {"save"} : Valid /\ ~ \E r \in mcNet : r.live}

Unsent == UNCHANGED <<mcRows, mcList, mcAsked, mcNet, mcCalls, mcOdd>>

-----------------------------------------------------------------------------
(* The dialog: target GlobalServer stands for a new server *)

AddServer ==
  /\ ~ mcDialog.open
  /\ mcDialog' = [NoDialog EXCEPT !.open = TRUE] /\ Unsent /\ UNCHANGED mcConfigs

\* The list gave everything but the secrets, which start blank.
EditServer(s) ==
  /\ "edit" \in OfferedFor(s)
  /\ mcDialog' = [open |-> TRUE, target |-> s, command |-> mcList[s].command, secrets |-> 0]
  /\ Unsent /\ UNCHANGED mcConfigs

TypeConfig ==
  /\ "type" \in DialogControls /\ mcConfigs < MaxConfigs /\ mcConfigs' = mcConfigs + 1
  /\ \E d \in {[mcDialog EXCEPT !.command = mcConfigs'], [mcDialog EXCEPT !.secrets = mcConfigs']} :
       mcDialog' = d
  /\ Unsent

\* Without its dialog a save has no callback.
CloseServer ==
  /\ "cancel" \in DialogControls /\ mcDialog' = NoDialog
  /\ mcNet' = {[r EXCEPT !.live = FALSE] : r \in mcNet}
  /\ UNCHANGED <<mcRows, mcList, mcAsked, mcConfigs, mcCalls, mcOdd>>

-----------------------------------------------------------------------------
(* Mutations *)

McpCall(kind, s, config, live) ==
  /\ mcCalls < MaxMcpCalls /\ mcCalls' = mcCalls + 1
  /\ mcNet' = mcNet \cup {[kind |-> kind, n |-> mcCalls', server |-> s, config |-> config,
                           live |-> live, at |-> "sent", ok |-> TRUE]}
  /\ mcOdd' = (mcOdd \/ mcNet # {})
  /\ UNCHANGED <<mcRows, mcList, mcAsked, mcDialog, mcConfigs>>

Config == [NoServer EXCEPT !.command = mcDialog.command, !.secrets = mcDialog.secrets]

SaveServer(s) ==
  /\ "save" \in DialogControls
  /\ mcDialog.target \in {GlobalServer, s}
  /\ McpCall("save", s, Config, TRUE)

SwitchServer(s) ==
  /\ "switch" \in OfferedFor(s)
  /\ McpCall("toggle", s, [NoServer EXCEPT !.enabled = ~ mcList[s].enabled], FALSE)

DeleteServer(s) ==
  /\ "delete" \in OfferedFor(s)
  /\ McpCall("delete", s, NoServer, FALSE)

\* save_user_mcp sets every column but is_active from the request, and makes
\* the row, enabled, if there is none.  Global names are refused.
SavedRow(old, config) ==
  [config EXCEPT !.enabled = old.enabled \/ old.command = 0]

ServeMcp(r) ==
  /\ r \in mcNet /\ r.at = "sent"
  /\ LET old == mcRows[r.server]
         ok == r.server # GlobalServer /\ (r.kind = "save" \/ old.command # 0)
     IN /\ mcNet' = (mcNet \ {r}) \cup {[r EXCEPT !.at = "done", !.ok = ok]}
        /\ mcRows' = [mcRows EXCEPT ![r.server] =
             CASE ~ ok -> @
               [] ok /\ r.kind = "save" -> SavedRow(old, r.config)
               [] ok /\ r.kind = "toggle" -> [old EXCEPT !.enabled = r.config.enabled]
               [] ok /\ r.kind = "delete" -> NoServer]
  /\ UNCHANGED <<mcList, mcAsked, mcDialog, mcConfigs, mcCalls, mcOdd>>

LoseMcp(r) ==
  /\ r \in mcNet /\ r.at \in {"sent", "done"}
  /\ mcNet' = mcNet \ {r} /\ mcOdd' = TRUE
  /\ UNCHANGED <<mcRows, mcList, mcAsked, mcDialog, mcConfigs, mcCalls>>

-----------------------------------------------------------------------------
(* Answers *)

\* onSuccess of the hook: the queries under "mcp" are asked again.
McpAnswer(r) ==
  /\ r \in mcNet /\ r.at = "done"
  /\ mcNet' = (mcNet \ {r}) \cup {[r EXCEPT !.at = "refetch"]}
  /\ mcAsked' = TRUE
  /\ UNCHANGED <<mcRows, mcList, mcDialog, mcConfigs, mcCalls, mcOdd>>

McpList ==
  /\ mcAsked /\ mcAsked' = FALSE
  /\ mcList' = ServersListed(mcRows)
  /\ UNCHANGED <<mcRows, mcDialog, mcNet, mcConfigs, mcCalls, mcOdd>>

\* Mutant: onSuccess does not return the promise of invalidateQueries.
MutantFetchedAgain == TRUE
\* It returns the promise, so that the mutation settles after the fetch.
FetchedAgain == ~ mcAsked

McpSettles(r) ==
  /\ r \in mcNet /\ r.at = "refetch" /\ FetchedAgain
  /\ mcNet' = mcNet \ {r}
  /\ mcDialog' = IF r.live /\ r.ok THEN NoDialog ELSE mcDialog
  /\ UNCHANGED <<mcRows, mcList, mcAsked, mcConfigs, mcCalls, mcOdd>>

NextMcp ==
  \/ \E s \in Servers : EditServer(s) \/ SaveServer(s) \/ SwitchServer(s) \/ DeleteServer(s)
  \/ AddServer \/ TypeConfig \/ CloseServer \/ McpList
  \/ \E r \in mcNet : ServeMcp(r) \/ LoseMcp(r) \/ McpAnswer(r) \/ McpSettles(r)

SpecMcp == InitMcp /\ [][NextMcp]_mcVars

-----------------------------------------------------------------------------
(* Properties *)

\* When the dialog closes because the server was saved, the list it uncovers
\* already has the server as it was saved (queries.ts:50, McpPanel.tsx:86-89),
\* unless another mutation overlapped.
ClosedMeansListed ==
  [][\A r \in mcNet :
       r.kind = "save" /\ mcDialog.open /\ ~ mcDialog'.open /\ ~ mcOdd
       /\ (\A q \in mcNet' : q.n # r.n)
         => mcList[r.server].command = r.config.command]_mcVars

\* The secrets of a server go only with the server: an edit that leaves their
\* fields blank keeps them (McpPanel.tsx:39-40, "on edit those start blank --
\* re-enter to change them").
SecretsSurviveEdits ==
  [][\A s \in Servers : mcRows[s].secrets # 0 /\ mcRows'[s].command # 0
       => mcRows'[s].secrets # 0]_mcVars
=============================================================================
