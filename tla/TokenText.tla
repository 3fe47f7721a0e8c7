----------------------------- MODULE TokenText -----------------------------
(***************************************************************************)
(* The text of a Personal Access Token (internal/auth/token.go):           *)
(* tallox_<id>_<secret>, where the underscore is also a character of the   *)
(* secret's alphabet. A text is a sequence of bytes.                       *)
(***************************************************************************)
EXTENDS Access, Sequences

CONSTANTS
  Byte,        \* the bytes of the run
  Crockford,   \* crockfordAlphabet
  Prefix,      \* tokenPrefix
  IdLength,    \* tokenIDLength
  SecretLength \* secretLength

\* What stands between the id and the secret.
Separator == "_"

ASSUME TokenTextAssumption ==
  /\ Separator \in Byte
  /\ Crockford \subseteq Byte \ {Separator}
  /\ Prefix \in Seq(Byte)
  /\ IdLength \in Nat \ {0} /\ SecretLength \in Nat \ {0}

\* What Mint draws for a token: the secret's alphabet is base64url, underscore included.
Id == [1..IdLength -> Crockford]
Secret == [1..SecretLength -> Byte]

\* MintedToken.Plaintext.
Plaintext(id, secret) == Prefix \o id \o <<Separator>> \o secret

\* strings.Cut at an underscore of the text, and what is left and right of it.
Underscores(text) == {i \in 1..Len(text) : text[i] = Separator}

\* Mutant: at the last one.
CutAtLast(text) == CHOOSE i \in Underscores(text) : \A j \in Underscores(text) : j <= i

CutAt(text) == CHOOSE i \in Underscores(text) : \A j \in Underscores(text) : i <= j

Before(text) == SubSeq(text, 1, CutAt(text) - 1)
After(text) == SubSeq(text, CutAt(text) + 1, Len(text))

HasPrefix(text) ==
  Len(text) >= Len(Prefix) /\ SubSeq(text, 1, Len(Prefix)) = Prefix

\* strings.CutPrefix: no text where the prefix is missing.
CutPrefix(text) ==
  IF HasPrefix(text) THEN SubSeq(text, Len(Prefix) + 1, Len(text)) ELSE <<>>

\* ParseToken takes the text for a token ...
WellFormed(text) ==
  LET rest == CutPrefix(text) IN
  /\ Underscores(rest) # {}
  /\ Len(Before(rest)) = IdLength /\ Len(After(rest)) = SecretLength
  /\ \A i \in 1..IdLength : Before(rest)[i] \in Crockford

\* ... and this is what it reads.
Parsed(text) == LET rest == CutPrefix(text) IN [id |-> Before(rest), secret |-> After(rest)]

-----------------------------------------------------------------------------
(* Properties. *)

EveryDrawIsRead ==
  \A id \in Id, secret \in Secret :
    /\ WellFormed(Plaintext(id, secret))
    /\ Parsed(Plaintext(id, secret)) = [id |-> id, secret |-> secret]

\* A token in the table can be used: whatever Mint drew for it, the text its
\* owner was shown once is read back, id and secret, wherever the secret has an
\* underscore and whatever the prefix looks like (Mint, ParseToken).
MintedIsRead == Minted # {} => EveryDrawIsRead
=============================================================================
