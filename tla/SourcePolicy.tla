---------------------------- MODULE SourcePolicy ----------------------------
(***************************************************************************)
(* tools/source_policy.py: every package of a selected image has a source  *)
(* that is built or an approved exception, and no exception outlives its   *)
(* reason.  The solver records the outcome in the lockfile; the generator  *)
(* computes it again from the lockfile's contents and compares.            *)
(*                                                                         *)
(* A payload is [package, source], with source NoSource where the lock     *)
(* records none.  An exception is [package, source, fit]; source is        *)
(* NoSource when it names none, and fit says that it has a supported kind  *)
(* and a reason.  A policy is None when it was refused.                    *)
(***************************************************************************)
EXTENDS FiniteSets, Integers

CONSTANT NoSource

None == [refused |-> TRUE]

\* _exception_index: one well-formed exception for a package.
Indexable(exceptions) ==
  \A e \in exceptions : e.fit /\ \A f \in exceptions : f.package = e.package => f = e

Producible(payload, producers) == payload.source # NoSource /\ payload.source \in producers

Excuses(e, payload) ==
  e.package = payload.package /\ e.source \in {NoSource, payload.source}

Pinned(payloads, producers) == {p \in payloads : ~Producible(p, producers)}

\* The exceptions that cover a pinned payload of some image.
Used(images, producers, exceptions) ==
  {e \in exceptions : \E n \in DOMAIN images :
                        \E p \in Pinned(images[n], producers) : Excuses(e, p)}

\* The loop over one image's payloads: none comes twice, none is left without a
\* producer or an exception of its own, none has both.
Covered(payloads, producers, exceptions) ==
  /\ \A p, q \in payloads : p.package = q.package => p = q
  /\ \A p \in payloads :
       IF Producible(p, producers)
       THEN \A e \in exceptions : e.package # p.package
       ELSE \E e \in exceptions : Excuses(e, p)

Counts(payloads, producers) ==
  [pinned |-> Cardinality(Pinned(payloads, producers)),
   source |-> Cardinality(payloads \ Pinned(payloads, producers)),
   total  |-> Cardinality(payloads)]

build_source_policy(images, producers, exceptions) ==
  IF /\ DOMAIN images # {}
     /\ Indexable(exceptions)
     /\ \A n \in DOMAIN images : Covered(images[n], producers, exceptions)
     /\ exceptions = Used(images, producers, exceptions)
  THEN [refused |-> FALSE, exceptions |-> exceptions, image_sets |-> DOMAIN images,
        summary |-> [n \in DOMAIN images |-> Counts(images[n], producers)]]
  ELSE None

\* The recorded policy is the one its own exceptions and images give.
validate_source_policy(recorded, images, producers) ==
  /\ recorded.image_sets \subseteq DOMAIN images
  /\ recorded = build_source_policy([n \in recorded.image_sets |-> images[n]], producers,
                                    recorded.exceptions)
=============================================================================
