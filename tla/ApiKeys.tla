------------------------------- MODULE ApiKeys -------------------------------
(***************************************************************************)
(* API keys: what a request for one may say, the row that is stored, its    *)
(* two ends (revocation, expiry), and the two questions asked of it: by     *)
(* hash and address when a client presents it, by id while a connection     *)
(* lasts.  An entry of an allowlist is the set of the addresses it matches; *)
(* scopes, names and the time of the last use are left out.                 *)
(***************************************************************************)
EXTENDS Naturals

CONSTANTS Addresses, Null    \* Null: no list

\* What the schema lets through: no expiry or a positive one, a list, perhaps empty, of
\* addresses and blocks.  What matches nothing is no entry.
isValidIpOrCidr(entry) == entry \subseteq Addresses /\ entry # {}

Bodies ==
  [expires : BOOLEAN,
   allowedIps : {Null} \cup SUBSET {e \in SUBSET Addresses : isValidIpOrCidr(e)}]

\* Where a key is both revoked and expired, the revocation is what is kept.
NotCreated == [stored |-> FALSE, expires |-> FALSE, allowedIps |-> Null, ended |-> "no"]

\* An empty list is stored as none.
create(body) ==
  [NotCreated EXCEPT !.stored = TRUE, !.expires = body.expires,
                     !.allowedIps = IF body.allowedIps = {} THEN Null ELSE body.allowedIps]

Active(row) == row.stored /\ row.ended = "no"

\* Mutation: an active key is one that was not revoked, whether or not it has expired.
ActiveUntilRevoked(row) == row.stored /\ row.ended # "revoked"

\* The row, by its id, is neither revoked nor expired.
isActive(row) == Active(row)

\* The same test when a key is presented: only its hash is known.
findActiveByHash(row) == Active(row)

ipMatchesEntry(ip, entry) == ip \in entry

ipAllowed(ip, list) == \E entry \in list : ipMatchesEntry(ip, entry)

verify(row, ip) ==
  findActiveByHash(row) /\ (row.allowedIps = Null \/ ipAllowed(ip, row.allowedIps))

\* UPDATE ... WHERE revoked_at IS NULL: a second revocation finds nothing.
Revocable(row) == row.stored /\ row.ended # "revoked"
revoke(row) == [row EXCEPT !.ended = "revoked"]

\* The time that create computed comes.
Expirable(row) == Active(row) /\ row.expires
expire(row) == [row EXCEPT !.ended = "expired"]
=============================================================================
