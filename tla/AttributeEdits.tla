---------------------------- MODULE AttributeEdits ----------------------------
(***************************************************************************)
(* The attributes of the local program while pages edit them:              *)
(* attribute_edits.go, attribute_edit_leases.go, the handlers of           *)
(* config_store.go, and the transactions of gifts and timers, which leave  *)
(* an attribute alone while somebody has a lease on it.                    *)
(*                                                                         *)
(* Attributes have IDs, but rules and scenes name them: a rename rewrites  *)
(* the names.  A page's requests may time out while the server still works *)
(* on them.  How a state is written durably is GiftLedger.                 *)
(***************************************************************************)
EXTENDS Integers, FiniteSets

CONSTANTS
  Pages,       \* pages of the browser with an editor
  Edits,       \* requests that submit an edit, each once
  Attributes,  \* IDs of attributes
  Names,       \* names of attributes
  Rules,       \* IDs of rules
  Nobody,      \* not one of them
  InitialName, \* the attributes there are at first, and their names
  InitialRule, \* the names that the rules have at first
  MaxTokens,   \* bound of the leases
  MaxResults,  \* bound of the results of rules
  MaxPatches   \* bound of the replacements of the state by a page

ASSUME EditAssumption ==
  /\ Nobody \notin Pages \cup Edits \cup Attributes \cup Names \cup Rules /\ Nobody # "rules"
  /\ MaxTokens \in Nat /\ MaxResults \in Nat /\ MaxPatches \in Nat
  /\ InitialName \in [Attributes -> Names \cup {Nobody}] /\ InitialRule \in [Rules -> Names \cup {Nobody}]

VARIABLES
  config,    \* the stored state
  identified,\* the attributes with an ID; an old one has only its name
  results,   \* history: the results that rules have given an attribute
  leases,    \* sessions of the lease coordinator, by token
  issued,    \* the tokens so far
  storeLock, \* the holder of configStore.mu
  editor,    \* the editor of each page
  edit,      \* the request of each edit
  rules,     \* the transaction of a gift or a timer
  patches    \* the replacements so far

editVars == <<config, identified, results, leases, issued, storeLock, editor, edit, rules, patches>>

Tokens == 1..MaxTokens
NoToken == 0
NoLease == [held |-> FALSE, of |-> Nobody, claims |-> 0, releasing |-> FALSE, expired |-> FALSE, due |-> FALSE]
Closed == [at |-> "closed", of |-> Nobody, token |-> NoToken, seen |-> 0, own |-> TRUE]
NoEdit == [at |-> "new", of |-> Nobody, token |-> NoToken, seen |-> 0, own |-> TRUE, next |-> Nobody]
NoRules == [at |-> "none", on |-> {}]

\* name: of the attributes there are; rule: the attribute's name that a rule has;
\* scene: the names on a display scene (as in activities, milestones and presets);
\* received: the progress of the gift targets.
Existing(c) == {a \in Attributes : c.name[a] # Nobody}

\* validateAppState: unique names, and no reference to an attribute that is not there.
Valid(c) ==
  LET there == {c.name[a] : a \in Existing(c)}
  IN /\ \A a, b \in Existing(c) : c.name[a] = c.name[b] => a = b
     /\ \A r \in Rules : c.rule[r] # Nobody => c.rule[r] \in there
     /\ c.scene \subseteq there

EditInit ==
  /\ config = [name |-> InitialName, rule |-> InitialRule,
               scene |-> {InitialName[a] : a \in Attributes} \ {Nobody}, received |-> FALSE]
  /\ Valid(config)
  /\ identified = {}
  /\ results = [a \in Attributes |-> 0]
  /\ leases = [t \in Tokens |-> NoLease] /\ issued = 0
  /\ storeLock = Nobody
  /\ editor = [p \in Pages |-> Closed] /\ edit = [e \in Edits |-> NoEdit]
  /\ rules = NoRules /\ patches = 0

-----------------------------------------------------------------------------
(***************************************************************************)
(* attributeEditLeaseCoordinator: every call removes what has expired.     *)
(***************************************************************************)
Swept ==
  [t \in Tokens |->
     IF ~leases[t].due THEN leases[t]
     ELSE IF leases[t].claims = 0 THEN NoLease ELSE [leases[t] EXCEPT !.expired = TRUE]]

Owns(a, t) == t # NoToken /\ Swept[t].held /\ Swept[t].of = a /\ ~Swept[t].releasing /\ ~Swept[t].expired

\* Live of a claim: releasing does not end it.
Live(t) == IF t = NoToken THEN TRUE ELSE Swept[t].held /\ ~Swept[t].expired

\* Mutant of IsFrozen: a lease that is being released does not freeze.
ThawedByRelease(a) == \E t \in Tokens : Swept[t].held /\ Swept[t].of = a /\ ~Swept[t].expired /\ ~Swept[t].releasing

IsFrozen(a) == \E t \in Tokens : Swept[t].held /\ Swept[t].of = a /\ ~Swept[t].expired

Lease(a) == [Swept EXCEPT ![issued + 1] = [NoLease EXCEPT !.held = TRUE, !.of = a]]

\* attributeEditLeaseTTL passes since it was created or renewed.
LeaseRunsOut(t) ==
  /\ leases[t].held /\ ~leases[t].due
  /\ leases' = [leases EXCEPT ![t].due = TRUE]
  /\ UNCHANGED <<config, identified, results, issued, storeLock, editor, edit, rules, patches>>

-----------------------------------------------------------------------------
(***************************************************************************)
(* The editor of a page                                                    *)
(***************************************************************************)
\* Prepare, under configStore.mu; an attribute without an ID gets one.  The answer may
\* be lost, and with it the token.
OpenEditor(p, a) ==
  /\ editor[p].at = "closed" /\ issued < MaxTokens
  /\ storeLock = Nobody /\ a \in Existing(config)
  /\ identified' = identified \cup {a}
  /\ leases' = Lease(a) /\ issued' = issued + 1
  /\ \/ editor' = [editor EXCEPT ![p] = [at |-> "editing", of |-> a, token |-> issued + 1,
                                          seen |-> results[a], own |-> TRUE]]
     \/ UNCHANGED editor
  /\ UNCHANGED <<config, results, storeLock, edit, rules, patches>>

Renew(p) ==
  /\ editor[p].at = "editing" /\ Owns(editor[p].of, editor[p].token)
  /\ leases' = [Swept EXCEPT ![editor[p].token].due = FALSE]
  /\ UNCHANGED <<config, identified, results, issued, storeLock, editor, edit, rules, patches>>

\* The page takes another lease and keeps what it has edited.
Reacquire(p) ==
  /\ editor[p].at = "editing" /\ ~Owns(editor[p].of, editor[p].token)
  /\ storeLock = Nobody /\ issued < MaxTokens /\ editor[p].of \in Existing(config)
  /\ leases' = Lease(editor[p].of) /\ issued' = issued + 1
  /\ editor' = [editor EXCEPT ![p].token = issued + 1, ![p].own = FALSE]
  /\ UNCHANGED <<config, identified, results, storeLock, edit, rules, patches>>

\* Release marks the lease, and waits for its claims.
CloseEditor(p) ==
  /\ editor[p].at = "editing"
  /\ LET t == editor[p].token
     IN IF Swept[t].held /\ Swept[t].of = editor[p].of
        THEN leases' = [Swept EXCEPT ![t].releasing = TRUE] /\ editor' = [editor EXCEPT ![p].at = "releasing"]
        ELSE leases' = Swept /\ editor' = [editor EXCEPT ![p] = Closed]
  /\ UNCHANGED <<config, identified, results, issued, storeLock, edit, rules, patches>>

\* Awake, it looks at the claims again.
ReleaseLooks(p) ==
  /\ editor[p].at = "releasing"
  /\ IF leases[editor[p].token].claims > 0
     THEN editor' = [editor EXCEPT ![p].at = "waiting"] /\ UNCHANGED leases
     ELSE editor' = [editor EXCEPT ![p] = Closed] /\ leases' = [leases EXCEPT ![editor[p].token] = NoLease]
  /\ UNCHANGED <<config, identified, results, issued, storeLock, edit, rules, patches>>

-----------------------------------------------------------------------------
(***************************************************************************)
(* Submit                                                                  *)
(***************************************************************************)
\* Begin claims the lease.
BeginEdit(e, p) ==
  /\ edit[e].at = "new" /\ editor[p].at = "editing"
  /\ LET d == editor[p]
     IN IF Owns(d.of, d.token)
        THEN /\ leases' = [Swept EXCEPT ![d.token].claims = @ + 1]
             /\ edit' = [edit EXCEPT ![e] = [at |-> "claimed", of |-> d.of, token |-> d.token, seen |-> d.seen,
                                             own |-> d.own, next |-> Nobody]]
        ELSE leases' = Swept /\ edit' = [edit EXCEPT ![e].at = "done"]
  /\ UNCHANGED <<config, identified, results, issued, storeLock, editor, rules, patches>>

\* A new attribute needs no lease.
BeginNew(e) ==
  /\ edit[e].at = "new"
  /\ \E a \in Attributes \ (Existing(config) \cup identified) :
       edit' = [edit EXCEPT ![e] = [NoEdit EXCEPT !.at = "claimed", !.of = a]]
  /\ UNCHANGED <<config, identified, results, leases, issued, storeLock, editor, rules, patches>>

Lock(e) ==
  /\ edit[e].at = "claimed" /\ storeLock = Nobody
  /\ storeLock' = e /\ edit' = [edit EXCEPT ![e].at = "locked"]
  /\ UNCHANGED <<config, identified, results, leases, issued, editor, rules, patches>>

\* The rules of the former name are replaced by those that were submitted.
Edited(c, a, name, owned) ==
  LET old == c.name[a]
      rename(n) == IF n = old /\ old # Nobody THEN name ELSE n
  IN [c EXCEPT !.name[a] = name,
               !.rule = [r \in Rules |-> IF r \in owned THEN name
                                         ELSE IF c.rule[r] = old THEN Nobody ELSE c.rule[r]],
               !.scene = {rename(n) : n \in c.scene}]

\* An edit of an attribute that is not there, a name that is taken, or a rule that is
\* another attribute's is refused.
Accepted(c, a, name, owned, new) ==
  /\ new \/ a \in Existing(c)
  /\ \A b \in Existing(c) \ {a} : c.name[b] # name
  /\ \A r \in owned : c.rule[r] \in {Nobody, c.name[a]}
  /\ Valid(Edited(c, a, name, owned))

EditEnds(e) == edit' = [edit EXCEPT ![e].at = "finish", ![e].next = Nobody] /\ storeLock' = Nobody

\* applyAttributeEditLockedAuthorized up to the second look at the lease; name and owned
\* are what was submitted.
Merge(e, name, owned) ==
  /\ edit[e].at = "locked" /\ storeLock = e
  /\ leases' = Swept
  /\ LET d == edit[e]
     IN IF Live(d.token) /\ Accepted(config, d.of, name, owned, d.token = NoToken)
        THEN /\ edit' = [edit EXCEPT ![e].at = "merged", ![e].next = Edited(config, d.of, name, owned)]
             /\ UNCHANGED storeLock
        ELSE EditEnds(e)
  /\ UNCHANGED <<config, identified, results, issued, editor, rules, patches>>

Saves(e) == edit[e].at = "merged" /\ Live(edit[e].token)

\* A write that fails leaves the former state.
Save(e) ==
  /\ Saves(e)
  /\ config' = edit[e].next /\ identified' = identified \cup {edit[e].of}
  /\ leases' = Swept /\ EditEnds(e)
  /\ UNCHANGED <<results, issued, editor, rules, patches>>

SaveFails(e) ==
  /\ edit[e].at = "merged" /\ leases' = Swept /\ EditEnds(e)
  /\ UNCHANGED <<config, identified, results, issued, editor, rules, patches>>

\* Mutant of Awakened: only the last claim wakes up those who wait.
AwakenedLate(t) ==
  [p \in Pages |-> IF editor[p].at = "waiting" /\ ~leases[t].releasing THEN [editor[p] EXCEPT !.at = "releasing"] ELSE editor[p]]

Awakened(t) ==
  [p \in Pages |-> IF editor[p].at = "waiting" THEN [editor[p] EXCEPT !.at = "releasing"] ELSE editor[p]]

\* Finish of the claim wakes up those who release.
FinishClaim(e) ==
  /\ edit[e].at = "finish"
  /\ edit' = [edit EXCEPT ![e] = [NoEdit EXCEPT !.at = "done"]]
  /\ LET t == edit[e].token
     IN IF t = NoToken THEN UNCHANGED <<leases, editor>>
        ELSE /\ leases' = [leases EXCEPT ![t] =
                             IF @.claims = 1 /\ (@.releasing \/ @.expired \/ @.due) THEN NoLease
                             ELSE [leases[t] EXCEPT !.claims = @ - 1]]
             /\ editor' = Awakened(t)
  /\ UNCHANGED <<config, identified, results, issued, storeLock, rules, patches>>

-----------------------------------------------------------------------------
(***************************************************************************)
(* Gifts, timers and other pages                                           *)
(***************************************************************************)
\* gameplaySnapshotForGiftAt and gameplaySnapshotForTimers disable the rules of a frozen
\* attribute; one without an ID is never frozen.
RulesApply(triggered) ==
  /\ rules.at = "none" /\ storeLock = Nobody /\ \A a \in Attributes : results[a] < MaxResults
  /\ storeLock' = "rules" /\ leases' = Swept
  /\ rules' = [at |-> "applied",
               on |-> {a \in Existing(config) : /\ \E r \in triggered : config.rule[r] = config.name[a]
                                                /\ ~(a \in identified /\ IsFrozen(a))}]
  /\ UNCHANGED <<config, identified, results, issued, editor, edit, patches>>

RulesSave ==
  /\ rules.at = "applied"
  /\ results' = [a \in Attributes |-> IF a \in rules.on THEN results[a] + 1 ELSE results[a]]
  /\ config' = [config EXCEPT !.received = @ \/ rules.on # {}]
  /\ rules' = NoRules /\ storeLock' = Nobody
  /\ UNCHANGED <<identified, leases, issued, editor, edit, patches>>

\* A page sends a state that replaces all but the progress of the gift targets
\* (replaceClientState, patchClientState): here, one without some attributes and without
\* what names them.
Without(c, removed) ==
  LET gone == {c.name[a] : a \in removed}
  IN [c EXCEPT !.name = [a \in Attributes |-> IF a \in removed THEN Nobody ELSE c.name[a]],
               !.rule = [r \in Rules |-> IF c.rule[r] \in gone THEN Nobody ELSE c.rule[r]],
               !.scene = @ \ gone]

ReplaceState(removed) ==
  /\ patches < MaxPatches /\ storeLock = Nobody
  /\ config' = Without(config, removed) /\ patches' = patches + 1
  /\ UNCHANGED <<identified, results, leases, issued, storeLock, editor, edit, rules>>

EditNext ==
  \/ \E t \in Tokens : LeaseRunsOut(t)
  \/ \E p \in Pages :
       \/ \E a \in Attributes : OpenEditor(p, a)
       \/ Renew(p) \/ Reacquire(p) \/ CloseEditor(p) \/ ReleaseLooks(p)
       \/ \E e \in Edits : BeginEdit(e, p)
  \/ \E e \in Edits :
       \/ BeginNew(e) \/ Lock(e)
       \/ \E name \in Names, owned \in SUBSET Rules : Merge(e, name, owned)
       \/ Save(e) \/ SaveFails(e) \/ FinishClaim(e)
  \/ \E triggered \in SUBSET Rules : RulesApply(triggered)
  \/ RulesSave
  \/ \E removed \in SUBSET Existing(config) \ {{}} : ReplaceState(removed)

EditSpec == EditInit /\ [][EditNext]_editVars

-----------------------------------------------------------------------------
\* Nobody sleeps for ever: an editor that waits to be closed waits for a request that
\* still has its lease, however many share the lease and in whatever order they finish,
\* and whatever becomes of the lease meanwhile.
SleepersAreAwaited ==
  \A p \in Pages : editor[p].at = "waiting" => leases[editor[p].token].claims > 0

\* An edit that is accepted under the lease of its own session overwrites no result of
\* a gift or a timer that its page has not seen, although the lease runs out, is
\* renewed, released, or claimed by a second request meanwhile; and the other
\* attributes, their rules and the gifts received stay as the last writer left them.
\* And the sleepers are awaited.
AcceptedEditsLoseNothing ==
  [][ /\ SleepersAreAwaited'
      /\ \A e \in Edits : Save(e) =>
           LET a == edit[e].of
           IN /\ edit[e].own /\ edit[e].token # NoToken => results[a] = edit[e].seen
              /\ \A b \in Attributes \ {a} : config'.name[b] = config.name[b]
              /\ \A r \in Rules :
                   config.rule[r] \notin {Nobody, config.name[a]} => config'.rule[r] = config.rule[r]
              /\ config'.received = config.received /\ Valid(config') ]_editVars
=============================================================================
