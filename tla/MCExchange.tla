----------------------------- MODULE MCExchange -----------------------------
(* Payloads at the lengths where their header changes, and error codes of  *)
(* eight bits: the well-known ones and their neighbours, either way.        *)
EXTENDS Exchange, TLC

MCPayloads ==
    {Payload(as, length) : as \in {"string", "buffer"},
                           length \in {0, 31, 32, 255, 256, 65535, 65536}}
      \cup {Payload("object", 4)}

MCCodes == {0, 1, 127, 255, -1, -2} \cup 128..132 \cup -128..-124
=============================================================================
