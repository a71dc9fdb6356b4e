-------------------------- MODULE MCDurableProtocols --------------------------
(***************************************************************************)
(* Bounded instance of the protocols that run over the journal and its     *)
(* flushes: mailbox delivery, stair-step advancement with continuations,   *)
(* and the evidence of a recipient's context.  They share no state, so one *)
(* behaviour follows one of them and the state space is a sum.             *)
(***************************************************************************)
EXTENDS DurableMailbox, Advancement, ContextEvidence

VARIABLE protocol   \* the protocol this behaviour follows

Page(id, slot, pin, bytes, trust, freshness, observed, expires) ==
  [pageId |-> id, slot |-> slot, orderKey |-> 1, pin |-> pin, bytes |-> bytes,
   trust |-> trust, freshness |-> freshness, observedAt |-> observed,
   expiresAt |-> expires, lineage |-> {}]

GoalPage == Page(1, "goal", "required", 2, "user", "timeless", Never, Never)
PolicyPage == Page(2, "strategy-policy", "preferred", 1, "system", "timeless", Never, Never)
ToolPage == Page(3, "evidence", "evictable", 1, "tool", "fresh", 0, 1)
WebPage == Page(4, "evidence", "preferred", 2, "untrusted-external", "fresh", 1, Never)
OldPage == Page(5, "evidence", "preferred", 1, "agent", "expired", 0, 1)
MailPage == Page(6, "mail", "preferred", 2, "agent", "fresh", 0, 2)

(* The same message is sent twice, with two mailIds and one key; the       *)
(* second is past its expiry.                                              *)
MCMessages ==
  <<[idempotencyKey |-> "k", payload |-> 6, page |-> MailPage, expiresAt |-> Never],
    [idempotencyKey |-> "k", payload |-> 6, page |-> MailPage, expiresAt |-> 0]>>
MCContexts == {{PolicyPage}, {GoalPage}, {GoalPage, PolicyPage}}
MCManifestBounds == [maxPages |-> 2, maxBytes |-> 4]
MCSources == {GoalPage, PolicyPage, ToolPage, WebPage, OldPage}
MCPageBounds == {[maxPages |-> n, maxBytes |-> b] : n \in {2, 4}, b \in {3, 5}}

Observation(progress, artifact, verified, signal, stop, revise, interaction) ==
  [progress |-> progress, artifact |-> artifact, verified |-> verified,
   signal |-> signal, stop |-> stop, revise |-> revise, interaction |-> interaction]

MCObservations ==
  {Observation(<<"x">>, TRUE, TRUE, "none", FALSE, FALSE, "auto"),
   Observation(<<"y">>, TRUE, TRUE, "irreversible-effect", TRUE, FALSE, "auto"),
   Observation(<<"x">>, FALSE, TRUE, "none", FALSE, FALSE, "auto")}

Policy(advancement, visible, pauseOn) ==
  [advancement |-> advancement, maxMilestones |-> 3, maxNoProgressMilestones |-> 2,
   requireVisibleArtifact |-> visible, pauseOn |-> pauseOn]

MCPolicies == {Policy("continuous", FALSE, {"no-progress"}),
               Policy("checkpoint", TRUE, {"irreversible-effect"})}

MCInit ==
  /\ protocol \in {"mailbox", "advancement", "evidence"}
  /\ MailboxInit /\ AdvancementInit /\ EvidenceInit
  /\ protocol # "evidence" => evidence = {}
  /\ protocol # "advancement" => policy = CHOOSE p \in Policies : TRUE

MCNext ==
  /\ UNCHANGED protocol
  /\ \/ protocol = "mailbox" /\ MailboxNext /\ UNCHANGED <<advancementVars, evidenceVars>>
     \/ protocol = "advancement" /\ AdvancementNext /\ UNCHANGED <<mailboxVars, evidenceVars>>
     \/ protocol = "evidence" /\ EvidenceNext /\ UNCHANGED <<mailboxVars, advancementVars>>

mcvars == <<protocol, mailboxVars, advancementVars, evidenceVars>>

(* Time passes, and the owner of the mailbox reclaims what it may.         *)
MCSpec ==
  /\ MCInit /\ [][MCNext]_mcvars
  /\ WF_mcvars(protocol = "mailbox" /\ Tick /\ UNCHANGED <<protocol, advancementVars, evidenceVars>>)
  /\ \A m \in MailIds :
       WF_mcvars(protocol = "mailbox" /\ Reclaim(m)
                 /\ UNCHANGED <<protocol, advancementVars, evidenceVars>>)

TypeOK == MailboxTypeOK /\ AdvancementTypeOK

==============================================================================
