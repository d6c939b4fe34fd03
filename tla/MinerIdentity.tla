--------------------------- MODULE MinerIdentity ----------------------------
(***************************************************************************)
(* The two readings of a miner's user_identity.  The pool's                *)
(* (PayoutMode::try_from_user_identity) decides whether the miner may mine *)
(* and whom its blocks pay; the application's (parse_miner_identity) makes *)
(* of the same text the row of the miner in the dashboard and in the table *)
(* of known miners.  They are written apart, cut the text up in different  *)
(* orders, and only one of them trims.                                     *)
(*                                                                         *)
(* A text is a sequence of tokens: an address of the pool's network, an    *)
(* address of another one, a word that is no address, the words and the    *)
(* characters that the readings look for.  Two words without a character   *)
(* between them are a word that neither looks for.                         *)
(***************************************************************************)
EXTENDS Naturals, Sequences

CONSTANTS
  Nobody,     \* an error: no address is paid
  MaxTokens   \* bound: tokens typed after the beginning

Token == {"address", "foreign", "word", ".", "/", " ", "sri", "solo", "donate"}

ASSUME MinerIdentityAssumption == MaxTokens \in Nat /\ Nobody \notin Token

VARIABLES
  text,       \* user_identity
  typed       \* tokens after its beginning

textVars == <<text, typed>>

-----------------------------------------------------------------------------
(* What both make use of, on sequences instead of strings.                 *)

Has(t, c) == \E i \in 1..Len(t) : t[i] = c

FirstOf(t, c) == CHOOSE i \in 1..Len(t) : t[i] = c /\ \A j \in 1..i - 1 : t[j] # c

\* split_once, and split with one next after the other
Before(t, c) == IF Has(t, c) THEN SubSeq(t, 1, FirstOf(t, c) - 1) ELSE t
Behind(t, c) == IF Has(t, c) THEN SubSeq(t, FirstOf(t, c) + 1, Len(t)) ELSE <<>>

Inked(t) == {i \in 1..Len(t) : t[i] # " "}
FirstInked(t) == CHOOSE i \in Inked(t) : \A j \in Inked(t) : i <= j
LastInked(t) == CHOOSE i \in Inked(t) : \A j \in Inked(t) : j <= i

Trim(t) == IF Inked(t) = {} THEN <<>> ELSE SubSeq(t, FirstInked(t), LastInked(t))

-----------------------------------------------------------------------------
(* The pool.                                                               *)

\* payout_script, which takes the text as it is
PayoutScript(t) == IF t = <<"address">> THEN "address" ELSE Nobody

\* Mutant: an address is looked for behind the last of the parts only.
SoloScriptOfLast(t) ==
  LET rest == Behind(Behind(t, "/"), "/") IN
  IF Before(t, "/") = <<"sri">> /\ Before(Behind(t, "/"), "/") = <<"solo">> /\ ~Has(rest, "/")
  THEN PayoutScript(rest) ELSE Nobody

\* sri/solo/<payout_address>, whatever follows.  Every other text with parts
\* is an error, that of the donation modes too.
SoloScript(t) ==
  IF Before(t, "/") = <<"sri">> /\ Before(Behind(t, "/"), "/") = <<"solo">>
  THEN PayoutScript(Before(Behind(Behind(t, "/"), "/"), "/")) ELSE Nobody

\* try_from_user_identity: the payout address of mode Solo
TryFromUserIdentity(t) ==
  IF PayoutScript(Before(t, ".")) # Nobody THEN PayoutScript(Before(t, ".")) ELSE SoloScript(t)

-----------------------------------------------------------------------------
(* The application.                                                        *)

\* validate_payout_address
ValidatePayoutAddress(t) == PayoutScript(Trim(t))

Prefix == <<"sri", "/", "solo", "/">>
StripPrefix(t) == SubSeq(t, 5, Len(t))
StartsWith(t, prefix) == Len(prefix) <= Len(t) /\ SubSeq(t, 1, Len(prefix)) = prefix

Label(t) == IF Trim(t) = <<>> THEN <<"default">> ELSE Trim(t)
Identity(address, label) == [address |-> ValidatePayoutAddress(address), label |-> Label(label)]
Invalid == [address |-> Nobody, label |-> <<>>]

\* Mutant: the label begins at the first full stop, whichever form it is.
ParseTrimmedAtStop(t) == Identity(Before(t, "."), Behind(t, "."))

\* parse_miner_identity of a text that has been trimmed
ParseTrimmed(t) ==
  IF StartsWith(t, Prefix) THEN Identity(Before(StripPrefix(t), "/"), Behind(StripPrefix(t), "/"))
  ELSE IF StartsWith(t, <<"sri", "/">>) THEN Invalid
  ELSE Identity(Before(t, "."), Behind(t, "."))

ParseMinerIdentity(t) == IF Trim(t) = <<>> THEN Invalid ELSE ParseTrimmed(Trim(t))

-----------------------------------------------------------------------------
(* Texts, token after token.                                               *)

\* Typed at first: nothing, or what the two forms with parts begin with.
Untyped ==
  /\ text \in {<<>>, Prefix, <<"sri", "/", "donate", "/", "word", "/">>}
  /\ typed = 0

Type ==
  /\ typed < MaxTokens /\ typed' = typed + 1
  /\ \E token \in Token : text' = Append(text, token)

TextSpec == Untyped /\ [][Type]_textVars

-----------------------------------------------------------------------------
(* What can be relied on.                                                  *)

\* README, "Miner Identity": <bitcoin-address>,
\* <bitcoin-address>.<worker-label>, sri/solo/<bitcoin-address>/<worker-label>
Documented(t) ==
  \/ t = <<"address">>
  \/ StartsWith(t, <<"address", ".">>)
  \/ StartsWith(t, Prefix \o <<"address", "/">>)

\* The formats of the README are accepted, and the block pays the address
\* that the text names, whatever the label is made of; of other texts only
\* the third format without a label is: never a bare worker name, an
\* address of another network, a donation.
PaysWhomItNames ==
  TryFromUserIdentity(text) = IF Documented(text) \/ text = Prefix \o <<"address">>
                              THEN "address" ELSE Nobody

\* Whoever may mine has a row in the dashboard and the table of known
\* miners, under the address that its blocks pay: a miner that the pool
\* accepts is never shown as an invalid identity or under another's name.
AcceptedIsListed ==
  TryFromUserIdentity(text) # Nobody => ParseMinerIdentity(text).address = TryFromUserIdentity(text)
=============================================================================
