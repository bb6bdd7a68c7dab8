--------------------------- MODULE DiagnosticState ---------------------------
(***************************************************************************)
(* What the server remembers about published diagnostics                   *)
(* (DiagnosticPublishState in crates/lsp/src/server.rs) and what the       *)
(* client shows, as operators on one record d:                             *)
(*   published   bucket -> URIs of its last non-empty publish              *)
(*   pending     publishes a save waits for: records [key, trigger]        *)
(*   untrusted   URIs whose last change was malformed                      *)
(*   shown       URI -> document generation whose diagnostics the client   *)
(*               shows, or Nothing                                         *)
(* The diagnostics themselves are data; only where they are shown matters. *)
(***************************************************************************)
EXTENDS Integers

CONSTANT Nothing

Hide(d, uris) == [d EXCEPT !.shown = [u \in DOMAIN @ |-> IF u \in uris THEN Nothing ELSE @[u]]]

NoDiagnostics(buckets, uris) ==
    [published |-> [b \in buckets |-> {}], pending |-> {}, untrusted |-> {},
     shown |-> [u \in uris |-> Nothing]]

ClearBucket(d, b) == [Hide(d, d.published[b]) EXCEPT !.published[b] = {}]

ClearBuckets(d, bs) ==
    [Hide(d, UNION {d.published[b] : b \in bs})
       EXCEPT !.published = [b \in DOMAIN @ |-> IF b \in bs THEN {} ELSE @[b]]]

(* Mutant: publishes that wait for a superseded analysis are kept.         *)
ForgetNothing(d, bs) == d

ForgetPending(d, bs) == [d EXCEPT !.pending = {m \in @ : m.key.bucket \notin bs}]

(* Mutant: an edit drops the pending publishes but not what is shown.      *)
ClearForDidChangePendingOnly(d, bs) == ForgetPending(d, bs)

(* clear_diagnostics_for_did_change *)
ClearForDidChange(d, bs) == ForgetPending(ClearBuckets(d, bs), bs)

(* clear_uri_only *)
ClearUriOnly(d, b, u) ==
    IF u \in d.published[b] THEN [Hide(d, {u}) EXCEPT !.published[b] = @ \ {u}] ELSE d

(* clear_diagnostics_for_did_close *)
ClearForDidClose(d, u) ==
    [Hide(d, {u}) EXCEPT !.published = [b \in DOMAIN @ |-> @[b] \ {u}],
                         !.pending = {m \in @ : m.trigger # u},
                         !.untrusted = @ \ {u}]

MarkUntrusted(d, u) == [d EXCEPT !.untrusted = @ \cup {u}]
MarkTrusted(d, u) == [d EXCEPT !.untrusted = @ \ {u}]

RemovePending(d, key) == [d EXCEPT !.pending = {m \in @ : m.key # key}]

(* One marker per package key: a later save replaces the trigger.          *)
AddPending(d, key, u) ==
    [d EXCEPT !.pending = {m \in @ : m.key # key} \cup {[key |-> key, trigger |-> u]}]

(* publish_diagnostic_set: targets receive diagnostics of the generations  *)
(* given, and the rest of the bucket's last publish is cleared.            *)
Publish(d, b, targets, generations) ==
    [d EXCEPT !.shown = [u \in DOMAIN @ |-> IF u \in targets THEN generations[u]
                                            ELSE IF u \in d.published[b] THEN Nothing
                                            ELSE @[u]],
              !.published[b] = targets]
=============================================================================
