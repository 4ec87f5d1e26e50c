------------------------------- MODULE Policy -------------------------------
(***************************************************************************)
(* The policy of src/exodus/policy/policy.py: the kind of a detected value *)
(* gives its tier, and the tier gives what is done with the value.  A      *)
(* policy file overlays the defaults, entry by entry.                      *)
(***************************************************************************)
EXTENDS Sensitivity

CONSTANTS
  SecretKinds,    \* keys, tokens and credentials
  IdentityKinds,  \* card, account and identity numbers
  ContactKinds    \* addresses and phone numbers

Action == {"forward", "pseudonymize", "block"}

KnownKinds == SecretKinds \cup IdentityKinds \cup ContactKinds

DefaultKindTiers ==
  [k \in KnownKinds |->
     IF k \in SecretKinds THEN SECRET ELSE IF k \in IdentityKinds THEN HIGH ELSE PUBLIC]

DefaultTierActions == [t \in Tier |-> IF t = PUBLIC THEN "forward" ELSE "pseudonymize"]

\* f with the entries of g put over its own.
Overlay(f, g) == [x \in DOMAIN f \cup DOMAIN g |-> IF x \in DOMAIN g THEN g[x] ELSE f[x]]

\* from_yaml: a file names tiers for kinds and actions for tiers; default() is
\* what the empty file gives.
FromYaml(file) ==
  [kind_tiers |-> Overlay(DefaultKindTiers, file.kinds),
   tier_actions |-> Overlay(DefaultTierActions, file.tiers)]

\* A tier or an action from_yaml does not know makes it raise: nothing starts.
Loads(file) ==
  /\ \A k \in DOMAIN file.kinds : file.kinds[k] \in Tier
  /\ DOMAIN file.tiers \subseteq Tier
  /\ \A t \in DOMAIN file.tiers : file.tiers[t] \in Action

\* A kind without a tier is a secret, a tier without an action is blocked.
ActionForKind(policy, kind) ==
  LET tier == IF kind \in DOMAIN policy.kind_tiers THEN policy.kind_tiers[kind] ELSE SECRET
  IN  IF tier \in DOMAIN policy.tier_actions THEN policy.tier_actions[tier] ELSE "block"
=============================================================================
