--------------------------- MODULE MCWebhookStore ---------------------------
(* A small instance of WebhookStore for TLC: a Svix message, and HubSpot     *)
(* batches that share an event.  Two different events without an id have     *)
(* one key, one item is no object, and one cannot be stored.                 *)
EXTENDS WebhookStore

CONSTANTS c1, c2, msg, deal, bare, other, text, long,
          kMsg, kDeal, kLong, kUnknown

MCKeyOf == [e \in Events |->
               CASE e = msg  -> kMsg  [] e = deal -> kDeal
                 [] e = long -> kLong [] OTHER -> kUnknown]

MCSvix    == {<<msg>>}
MCHubSpot == {<<deal, text, bare>>, <<other, deal>>, <<deal, long>>}
=============================================================================
