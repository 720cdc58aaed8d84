------------------------------ MODULE Provisioning ------------------------------
(***************************************************************************)
(* bootstrap.py: the script that provisions the identity provider and      *)
(* publishes the credentials it was given.  An operator runs it again when  *)
(* it was interrupted, and when the provider was set up anew: it looks up   *)
(* what exists, keeps what it had published before and creates the rest.    *)
(***************************************************************************)
EXTENDS Naturals, Sequences

CONSTANTS
    MaxInterrupts,  \* bound: runs that are interrupted
    MaxResets       \* bound: times the provider is set up anew

Apps == {"web", "api"}
Users == {"machine", "dev"}
Order == <<"project", "web", "api", "machine", "dev", "webhook">>
Keys == {Order[i] : i \in DOMAIN Order}
Absent == [id |-> 0, secret |-> 0]

VARIABLES
    provider,     \* provider[k]: the identity and the secret of an entity, or Absent
    granted,      \* the identities of users with a grant
    routed,       \* the target that the events are sent to
    published,    \* the credentials of the last run that published
    serving,      \* those the server was started with
    run,          \* the run on its way: its place in Order, what it loaded and has got
    drawn,        \* identities and secrets drawn so far
    interrupts, resets,
    done          \* history: a run ended, and nothing happened since

idp == <<provider, granted, routed>>
vars == <<idp, published, serving, run, drawn, interrupts, resets, done>>
outside == <<published, serving, interrupts, resets, done>>

Nothing == [k \in Keys |-> Absent]
Idle == [at |-> 0, step |-> "find", stored |-> Nothing, got |-> Nothing]

Init ==
    /\ provider = Nothing
    /\ granted = {}
    /\ routed = 0
    /\ published = Nothing
    /\ serving = Nothing
    /\ run = Idle
    /\ drawn = 0
    /\ interrupts = 0
    /\ resets = 0
    /\ done = FALSE

At(k) == run.at \in DOMAIN Order /\ Order[run.at] = k
Exists(k) == provider[k] # Absent
Got(k, credential) ==
    run' = [run EXCEPT !.got[k] = credential,
                       !.at = IF k \in Users THEN @ ELSE @ + 1,
                       !.step = IF k \in Users THEN "grant" ELSE "find"]

Begin ==
    /\ run.at = 0
    /\ run' = [Idle EXCEPT !.at = 1, !.stored = published]
    /\ UNCHANGED <<idp, drawn, outside>>

\* ensure_project, with its roles and the policy: found or made, and there is no secret.
EnsureProject ==
    /\ At("project")
    /\ provider' = IF Exists("project") THEN provider
                   ELSE [provider EXCEPT !["project"].id = drawn + 1]
    /\ drawn' = IF Exists("project") THEN drawn ELSE drawn + 1
    /\ Got("project", provider'["project"])
    /\ UNCHANGED <<granted, routed, outside>>

\* Mutant: the client that was published may be another one.
KeptAnyway(k) == Exists(k) /\ run.stored[k].secret # 0
Kept(k) ==
    /\ Exists(k)
    /\ run.stored[k].id = provider[k].id
    /\ run.stored[k].secret # 0

\* ensure_application: kept, created with its secret, or given another secret.
EnsureApplication(k) ==
    /\ At(k)
    /\ IF Kept(k)
       THEN /\ Got(k, [id |-> provider[k].id, secret |-> run.stored[k].secret])
            /\ UNCHANGED <<provider, drawn>>
       ELSE /\ provider' = [provider EXCEPT
                   ![k] = [id |-> IF Exists(k) THEN @.id ELSE drawn + 1,
                           secret |-> drawn + 2]]
            /\ drawn' = drawn + 2
            /\ Got(k, provider'[k])
    /\ UNCHANGED <<granted, routed, outside>>

\* ensure_machine: the user and its secret are made by two calls, and the secret that was
\* published is kept for any user of that name.
CreateMachine ==
    /\ At("machine")
    /\ run.step = "find"
    /\ ~ Exists("machine")
    /\ provider' = [provider EXCEPT !["machine"].id = drawn + 1]
    /\ drawn' = drawn + 1
    /\ run' = [run EXCEPT !.step = "secret"]
    /\ UNCHANGED <<granted, routed, outside>>

KeepMachine ==
    /\ At("machine")
    /\ run.step = "find"
    /\ Exists("machine")
    /\ run.stored["machine"].secret # 0
    /\ Got("machine", [id |-> provider["machine"].id,
                       secret |-> run.stored["machine"].secret])
    /\ UNCHANGED <<idp, drawn, outside>>

DrawMachineSecret ==
    /\ At("machine")
    /\ \/ run.step = "secret"
       \/ run.step = "find" /\ Exists("machine") /\ run.stored["machine"].secret = 0
    /\ provider' = [provider EXCEPT !["machine"].secret = drawn + 1]
    /\ drawn' = drawn + 1
    /\ Got("machine", provider'["machine"])
    /\ UNCHANGED <<granted, routed, outside>>

\* ensure_dev_user: the password is the published one or another; the user has it only
\* when it is created with it.
EnsureDevUser ==
    LET password == IF run.stored["dev"].secret # 0 THEN run.stored["dev"].secret
                    ELSE drawn + 2 IN
    /\ At("dev")
    /\ run.step = "find"
    /\ provider' = IF Exists("dev") THEN provider
                   ELSE [provider EXCEPT !["dev"] = [id |-> drawn + 1, secret |-> password]]
    /\ drawn' = IF Exists("dev") /\ run.stored["dev"].secret # 0 THEN drawn ELSE drawn + 2
    /\ Got("dev", [id |-> provider'["dev"].id, secret |-> password])
    /\ UNCHANGED <<granted, routed, outside>>

EnsureGrant ==
    /\ run.step = "grant"
    /\ granted' = granted \cup {run.got[Order[run.at]].id}
    /\ run' = [run EXCEPT !.at = @ + 1, !.step = "find"]
    /\ UNCHANGED <<provider, routed, drawn, outside>>

\* ensure_webhook: a target whose key is not known is deleted and created again, and every
\* event is sent to the target there is.
DeleteWebhook ==
    /\ At("webhook")
    /\ Exists("webhook")
    /\ run.stored["webhook"].secret = 0
    /\ run.step = "find"
    /\ provider' = [provider EXCEPT !["webhook"] = Absent]
    /\ UNCHANGED <<granted, routed, run, drawn, outside>>

CreateWebhook ==
    /\ At("webhook")
    /\ ~ Exists("webhook")
    /\ provider' = [provider EXCEPT
          !["webhook"] = [id |-> drawn + 1, secret |-> drawn + 2]]
    /\ drawn' = drawn + 2
    /\ run' = [run EXCEPT !.got["webhook"] = provider'["webhook"], !.step = "route"]
    /\ UNCHANGED <<granted, routed, outside>>

KeepWebhook ==
    /\ At("webhook")
    /\ run.step = "find"
    /\ Exists("webhook")
    /\ run.stored["webhook"].secret # 0
    /\ run' = [run EXCEPT !.step = "route",
          !.got["webhook"] = [id |-> provider["webhook"].id,
                              secret |-> run.stored["webhook"].secret]]
    /\ UNCHANGED <<idp, drawn, outside>>

RouteEvents ==
    /\ run.step = "route"
    /\ routed' = run.got["webhook"].id
    /\ run' = [run EXCEPT !.at = @ + 1, !.step = "publish"]
    /\ UNCHANGED <<provider, granted, drawn, outside>>

Publish ==
    /\ run.step = "publish"
    /\ published' = run.got
    /\ run' = [run EXCEPT !.step = "restart"]
    /\ UNCHANGED <<idp, serving, drawn, interrupts, resets, done>>

\* The server is started with what was published, and the script ends.
RestartServer ==
    /\ run.step = "restart"
    /\ serving' = published
    /\ done' = TRUE
    /\ run' = Idle
    /\ UNCHANGED <<idp, published, drawn, interrupts, resets>>

\* A call fails, or the operator stops the script.
Interrupt ==
    /\ run.at > 0
    /\ interrupts < MaxInterrupts
    /\ interrupts' = interrupts + 1
    /\ done' = FALSE
    /\ run' = Idle
    /\ UNCHANGED <<idp, published, serving, drawn, resets>>

\* The provider's database is created anew.
Reset ==
    /\ run.at = 0
    /\ resets < MaxResets
    /\ resets' = resets + 1
    /\ done' = FALSE
    /\ provider' = Nothing
    /\ granted' = {}
    /\ routed' = 0
    /\ UNCHANGED <<published, serving, run, drawn, interrupts>>

Next ==
    \/ Begin \/ EnsureProject
    \/ \E k \in Apps : EnsureApplication(k)
    \/ CreateMachine \/ KeepMachine \/ DrawMachineSecret
    \/ EnsureDevUser \/ EnsureGrant
    \/ DeleteWebhook \/ CreateWebhook \/ KeepWebhook \/ RouteEvents
    \/ Publish \/ RestartServer \/ Interrupt \/ Reset

Spec == Init /\ [][Next]_vars

-----------------------------------------------------------------------------
\* After a run that ended, the server and the clients hold credentials that the provider
\* takes, the users are granted and the events reach the target (bootstrap.py:299-473).
\* The applications hold theirs whatever happened before, for they compare the published
\* identity.  The machine user and the webhook do not: a run interrupted after the
\* provider was set up anew leaves them with the secret of the user that is gone.  The
\* developer's password is lost with a run that made the user and did not publish.
Works(k) == serving[k] = provider[k]
PublishedWork ==
    done /\ run.at = 0 =>
        /\ \A k \in Apps \cup {"project"} : Works(k)
        /\ interrupts = 0 \/ resets = 0 => Works("machine") /\ Works("webhook")
        /\ interrupts = 0 => Works("dev")
        /\ {provider[k].id : k \in Users} \subseteq granted
        /\ routed = provider["webhook"].id
=============================================================================
