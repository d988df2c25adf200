---------------------------- MODULE Authorization ---------------------------
(***************************************************************************)
(* fanest.auth: signing and verifying tokens, and what a chain of guards   *)
(* (JwtAuthGuard, RolesGuard, ScopesGuard, AuthGuard, PoliciesGuard) makes *)
(* of a request, while time passes between one guard and the next.         *)
(***************************************************************************)
EXTENDS Naturals, Sequences, SequencesExt

CONSTANTS
  Actions, Subjects,
  Chains,      \* sequences of guards a route may have
  Handlings,   \* routes: [publicHandler, publicController, roles, scopes, policies]
  RuleLists,   \* rules an ability factory may make
  Claims,      \* what a token may claim: [roles, scopes, trusted]
  Expiry, Leeway, MaxClock

Manage == "manage"
All == "all"
Undeclared == {"(undeclared)"}  \* no @Roles or @Scopes: None in the code

Guards == {"jwt", "passport", "roles", "scopes", "policies"}

ASSUME AuthorizationAssumption ==
  Chains \subseteq Seq(Guards) /\ {Expiry, Leeway, MaxClock} \subseteq Nat

VARIABLES
  clock,
  issued,    \* the token the client has: its claims and expiry, NoToken
  chain, handling, rules,  \* the route and the user's abilities
  at,        \* how many guards let the request through
  user,      \* request.state.user
  verdict,   \* "none", "running" while guards decide, "handled" or "refused"
  checkedAt  \* history: when the token was verified

authVars == <<clock, issued, chain, handling, rules, at, user, verdict, checkedAt>>

NoToken == [roles |-> {}, scopes |-> {}, trusted |-> FALSE, expires |-> 0]
NoUser == NoToken

AuthInit ==
  /\ clock = 1 /\ issued = NoToken
  /\ chain \in Chains /\ handling \in Handlings /\ rules \in RuleLists
  /\ at = 0 /\ user = NoUser /\ verdict = "none" /\ checkedAt = 0

-----------------------------------------------------------------------------
(* Abilities *)

\* A rule about the action and the subject; "when" are the instances that
\* satisfy its condition.
Applies(rule, action, subject) == rule.action \in {Manage, action} /\ rule.subject \in {All, subject}

\* Ability.can: the last rule that matches wins.  An instance is one of a
\* subject's, {} stands for the subject itself.
Can(list, action, subject, instance) ==
  FoldLeft(LAMBDA allowed, r :
             IF Applies(r, action, subject) /\ (instance = {} \/ instance \subseteq r.when) THEN r.allowed ELSE allowed,
           FALSE, list)

-----------------------------------------------------------------------------
(* Tokens *)

\* sign(): the claims of the token and the time it expires.
Sign ==
  /\ issued = NoToken /\ verdict = "none"
  /\ \E claims \in Claims : issued' = [roles |-> claims.roles, scopes |-> claims.scopes,
                                       trusted |-> claims.trusted, expires |-> clock + Expiry]
  /\ UNCHANGED <<clock, chain, handling, rules, at, user, verdict, checkedAt>>

\* verify(): signature, algorithm, issuer, audience and required claims are
\* right, and the token has not expired (external: PyJWT).
Verifies == issued # NoToken /\ issued.trusted /\ clock < issued.expires + Leeway

Tick == clock < MaxClock /\ clock' = clock + 1
        /\ UNCHANGED <<issued, chain, handling, rules, at, user, verdict, checkedAt>>

-----------------------------------------------------------------------------
(* Guards *)

IsPublic == handling.publicHandler \/ handling.publicController

\* roles_for and scopes_for: what the handler declares, were it nothing,
\* replaces what its controller does.
Required(declared) == IF declared.handler # Undeclared THEN declared.handler
                      ELSE IF declared.controller # Undeclared THEN declared.controller ELSE {}

\* JwtAuthGuard, and AuthGuard with a strategy that verifies the token.
JwtPasses == IsPublic \/ Verifies

RolesPass == IsPublic \/ Required(handling.roles) = {} \/ user.roles \cap Required(handling.roles) # {}

ScopesPass == IsPublic \/ Required(handling.scopes) = {} \/ (user # NoUser /\ Required(handling.scopes) \subseteq user.scopes)

\* PoliciesGuard asks the abilities of the user, of nobody too: a public route
\* is not exempt.
Abilities == IF user = NoUser THEN <<>> ELSE rules
PoliciesPass == \A policy \in handling.policies : Can(Abilities, policy[1], policy[2], {})

Lets(guard) ==
  CASE guard \in {"jwt", "passport"} -> JwtPasses
    [] guard = "roles" -> RolesPass
    [] guard = "scopes" -> ScopesPass
    [] guard = "policies" -> PoliciesPass

EnterChain ==
  /\ verdict = "none" /\ verdict' = "running"
  /\ UNCHANGED <<clock, issued, chain, handling, rules, at, user, checkedAt>>

\* The next guard lets the request through, or raises; one that authenticates
\* leaves the user to the guards behind it.
Guard ==
  /\ verdict = "running" /\ at < Len(chain)
  /\ LET guard == chain[at + 1] IN
     IF Lets(guard)
     THEN /\ at' = at + 1 /\ UNCHANGED verdict
          /\ IF guard \in {"jwt", "passport"} /\ ~IsPublic
             THEN user' = issued /\ checkedAt' = clock ELSE UNCHANGED <<user, checkedAt>>
     ELSE verdict' = "refused" /\ UNCHANGED <<at, user, checkedAt>>
  /\ UNCHANGED <<clock, issued, chain, handling, rules>>

Handle ==
  /\ verdict = "running" /\ at = Len(chain) /\ verdict' = "handled"
  /\ UNCHANGED <<clock, issued, chain, handling, rules, at, user, checkedAt>>

AuthNext == Sign \/ Tick \/ EnterChain \/ Guard \/ Handle

AuthSpec == AuthInit /\ [][AuthNext]_authVars

-----------------------------------------------------------------------------
(* Properties *)

InChain(guard) == \E i \in DOMAIN chain : chain[i] = guard

\* A handler that is not public runs only for a user whose token was valid when
\* its guard looked, and who has a role and every scope that the handler or else
\* its controller asks for, in whatever order the guards stand; and a public
\* one always runs, unless a policy forbids it (jwt.py:145).
AccessGranted ==
  /\ (verdict = "handled" /\ ~IsPublic) =>
       /\ (InChain("jwt") \/ InChain("passport")) =>
            user.trusted /\ checkedAt < user.expires + Leeway
       /\ (InChain("roles") /\ Required(handling.roles) # {}) =>
            \E role \in Required(handling.roles) : role \in user.roles
       /\ InChain("scopes") => \A scope \in Required(handling.scopes) : scope \in user.scopes
  /\ (verdict = "refused" /\ IsPublic) => InChain("policies") /\ handling.policies # {}
=============================================================================
