------------------------------- MODULE SecretFiles -------------------------------
(***************************************************************************)
(* generate.py: secret files are made from committed examples by filling in *)
(* placeholders.  A value is drawn once and kept in values.json, so that    *)
(* files made by different runs agree; a file that exists is left alone.    *)
(***************************************************************************)
EXTENDS Naturals, Sequences

CONSTANTS
    Templates,      \* the examples: a sequence of sequences of placeholders
    Hashed(_),      \* the placeholder whose value p is the hash of, or p itself
    MaxStops        \* bound: runs that are interrupted

Placeholders == UNION {{Templates[i][j] : j \in DOMAIN Templates[i]} : i \in DOMAIN Templates}

VARIABLES
    store,        \* values.json: a value for each placeholder, 0 for none, and if it is torn
    files,        \* files[i]: absent, being written, torn or whole, with what is in it
    generator,    \* the run: the example it is at, its values, what is filled in
    fresh,        \* values drawn so far
    stops

vars == <<store, files, generator, fresh, stops>>

NoValues == [p \in Placeholders |-> 0]
Stopped == [at |-> 0, values |-> NoValues, rendered |-> <<>>, saving |-> FALSE]

Init ==
    /\ store = [torn |-> FALSE, values |-> NoValues]
    /\ files = [i \in DOMAIN Templates |-> [is |-> "absent", values |-> <<>>]]
    /\ generator = Stopped
    /\ fresh = 0
    /\ stops = 0

\* A store that cannot be parsed ends the run at once.
Start ==
    /\ generator.at = 0
    /\ ~ store.torn
    /\ generator' = [Stopped EXCEPT !.at = 1, !.values = store.values]
    /\ UNCHANGED <<store, files, fresh, stops>>

Skip ==
    /\ generator.at \in DOMAIN Templates
    /\ generator.rendered = <<>>
    /\ ~ generator.saving
    /\ files[generator.at].is \in {"torn", "whole"}
    /\ generator' = [generator EXCEPT !.at = @ + 1]
    /\ UNCHANGED <<store, files, fresh, stops>>

Rendering(p) ==
    /\ generator.at \in DOMAIN Templates
    /\ files[generator.at].is = "absent"
    /\ ~ generator.saving
    /\ Len(generator.rendered) < Len(Templates[generator.at])
    /\ p = Templates[generator.at][Len(generator.rendered) + 1]

\* Generator.get and create: the value a hash is made of is drawn first.
Draw(p) ==
    LET q == IF generator.values[Hashed(p)] = 0 THEN Hashed(p) ELSE p IN
    /\ Rendering(p)
    /\ generator.values[q] = 0
    /\ generator' = [generator EXCEPT !.saving = TRUE,
          !.values[q] = IF Hashed(q) = q THEN fresh + 1 ELSE generator.values[Hashed(q)]]
    /\ fresh' = fresh + 1
    /\ UNCHANGED <<store, files, stops>>

\* Generator.save truncates the store and writes it.  Mutant: values are not kept.
SavedNot == store.values
Saved == generator.values
Truncate ==
    /\ generator.saving
    /\ ~ store.torn
    /\ store' = [store EXCEPT !.torn = TRUE]
    /\ UNCHANGED <<files, generator, fresh, stops>>

Save ==
    /\ generator.saving
    /\ store.torn
    /\ store' = [torn |-> FALSE, values |-> Saved]
    /\ generator' = [generator EXCEPT !.saving = FALSE]
    /\ UNCHANGED <<files, fresh, stops>>

Substitute(p) ==
    /\ Rendering(p)
    /\ generator.values[p] # 0
    /\ generator' = [generator EXCEPT !.rendered = Append(@, generator.values[p])]
    /\ UNCHANGED <<store, files, fresh, stops>>

\* The file is created empty and then written.
Create ==
    /\ generator.at \in DOMAIN Templates
    /\ files[generator.at].is = "absent"
    /\ ~ generator.saving
    /\ Len(generator.rendered) = Len(Templates[generator.at])
    /\ files' = [files EXCEPT ![generator.at].is = "writing"]
    /\ UNCHANGED <<store, generator, fresh, stops>>

Write ==
    /\ generator.at \in DOMAIN Templates
    /\ files[generator.at].is = "writing"
    /\ files' = [files EXCEPT ![generator.at] = [is |-> "whole", values |-> generator.rendered]]
    /\ generator' = [generator EXCEPT !.rendered = <<>>, !.at = @ + 1]
    /\ UNCHANGED <<store, fresh, stops>>

Finish ==
    /\ generator.at > Len(Templates)
    /\ generator' = Stopped
    /\ UNCHANGED <<store, files, fresh, stops>>

Interrupt ==
    /\ generator.at > 0
    /\ stops < MaxStops
    /\ stops' = stops + 1
    /\ generator' = Stopped
    /\ files' = [i \in DOMAIN files |->
           IF files[i].is = "writing" THEN [files[i] EXCEPT !.is = "torn"] ELSE files[i]]
    /\ UNCHANGED <<store, fresh>>

Next ==
    \/ Start \/ Skip \/ Truncate \/ Save \/ Create \/ Write \/ Finish \/ Interrupt
    \/ \E p \in Placeholders : Draw(p) \/ Substitute(p)

Spec == Init /\ [][Next]_vars

-----------------------------------------------------------------------------
\* Files that were written whole agree on every value, whichever runs wrote them, and a
\* hash is that of the value in the other files (generate.py:83-101).  Files or a store
\* torn by an interrupt are left as they are: a torn file is never made again.
FilesAgree ==
    \A i, k \in DOMAIN Templates : \A j \in DOMAIN Templates[i], l \in DOMAIN Templates[k] :
        /\ files[i].is = "whole" /\ files[k].is = "whole"
        /\ Hashed(Templates[i][j]) = Hashed(Templates[k][l])
        => files[i].values[j] = files[k].values[l]
=============================================================================
