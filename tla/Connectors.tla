----------------------------- MODULE Connectors -----------------------------
(***************************************************************************)
(* How an alert is handed over to a channel, by the type of the channel     *)
(* (packages/notifications): what may become of connector.send.  A result   *)
(* is whether the alert arrived, and whether send resolved or threw.        *)
(* Configs, payloads and templates are left out.                            *)
(***************************************************************************)
CONSTANT Channels

Types == {"smtp", "telegram", "webhook"}

Result == [arrived: BOOLEAN, resolved: BOOLEAN]

\* What becomes of a POST: it gets nowhere, it is turned down, it is taken, or it is taken
\* and the answer is lost or late.
Exchanges == {"lost", "refused", "accepted", "unanswered"}
Arrives(exchange) == exchange \in {"accepted", "unanswered"}

\* fetch is abandoned after TIMEOUT_MS, and any status but 2xx throws.
webhookSend(exchange) == exchange = "accepted"

\* The Bot API, the same way.
telegramSend(exchange) == exchange = "accepted"

\* sendMail resolves if the server took the mail for one of its recipients at least, and
\* said so; nodemailer has timeouts of its own.
smtpSend(exchange) == exchange = "accepted"

\* The outcomes of createConnector(type, config).send.  The config was validated by the
\* same schema when it was stored.
createConnector(type) ==
  {[arrived |-> Arrives(x), resolved |-> CASE type = "webhook"  -> webhookSend(x)
                                           [] type = "telegram" -> telegramSend(x)
                                           [] type = "smtp"     -> smtpSend(x)] : x \in Exchanges}
=============================================================================
