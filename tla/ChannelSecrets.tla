--------------------------- MODULE ChannelSecrets ---------------------------
(***************************************************************************)
(* What clients see of the credentials in a channel's config, and what     *)
(* becomes of a config that they send back (notifications/factory.ts).  A  *)
(* config is a URL, visible up to its first path segment, and a secret:    *)
(* botToken, pass, a token or a secret header.                             *)
(***************************************************************************)

CONSTANTS
  Visible,   \* what maskUrl shows of a URL
  Tails,     \* the rest of one, that it hides
  Unmarked,  \* those that it drops without leaving a mask
  Secrets,   \* values of a secret
  MASK,      \* the placeholder
  Absent     \* no such value

ASSUME SecretsAssumption ==
  /\ {MASK, Absent} \cap (Tails \cup Secrets) = {} /\ MASK # Absent
  /\ Unmarked \subseteq Tails

Config == [url: [visible: Visible, tail: Tails \cup {MASK, Absent}],
           secret: Secrets \cup {MASK, Absent}]

Masked(value) == IF value = Absent THEN Absent ELSE MASK

\* Further path segments and a query leave a mask; user info, a fragment and a slash at
\* the end do not.
maskUrl(url) == [url EXCEPT !.tail = IF @ \in Unmarked THEN Absent ELSE Masked(@)]

redactConfig(config) == [url |-> maskUrl(config.url), secret |-> Masked(config.secret)]

\* Mutation: only a value that is the mask and nothing else is restored.
RestoreWhole(incoming, stored) ==
  [incoming EXCEPT !.secret = IF @ = MASK /\ stored.secret # Absent THEN stored.secret ELSE @]

\* A mask means "leave unchanged", and so does a URL with a mask in it, whatever the
\* rest of it; where nothing is stored there is nothing to restore.
restoreRedacted(incoming, stored) ==
  [url    |-> IF incoming.url.tail = MASK THEN stored.url ELSE incoming.url,
   secret |-> IF incoming.secret = MASK /\ stored.secret # Absent THEN stored.secret
              ELSE incoming.secret]
=============================================================================
