------------------------------- MODULE KinMemo -------------------------------
(***************************************************************************)
(* The 32 byte memo of kin/memo.go: how the version, the transaction type, *)
(* the app index and the foreign key share its bits.                       *)
(***************************************************************************)
EXTENDS Integers, Sequences

Earn  == 1
Spend == 2
P2P   == 3
TransactionTypeUnknown == -1

\* Byte k of the foreign key, counted from 0.
KeyByte(fk, k) == IF k < Len(fk) THEN fk[k + 1] ELSE 0

NewMemo(v, t, appIndex, fk) ==
  [k \in 1 .. 32 |->
    CASE k = 1 -> 1 + 4 * v + 32 * (t % 8)
      [] k = 2 -> (t \div 8) + 4 * (appIndex % 64)
      [] k = 3 -> (appIndex \div 64) % 256
      [] k = 4 -> (appIndex \div 16384) + 4 * (KeyByte(fk, 0) % 64)
      [] OTHER -> (KeyByte(fk, k - 5) \div 64) + 4 * (KeyByte(fk, k - 4) % 64)]

IsValidMemo(m) == m[1] % 4 = 1

TransactionTypeRaw(m) == (m[1] \div 32) + 8 * (m[2] % 4)

TransactionType(m) ==
  IF TransactionTypeRaw(m) <= P2P THEN TransactionTypeRaw(m) ELSE TransactionTypeUnknown

AppIndex(m) == (m[2] \div 4) + 64 * m[3] + 16384 * (m[4] % 4)

ForeignKey(m) ==
  [k \in 1 .. 29 |-> IF k = 29 THEN m[32] \div 4 ELSE (m[k + 3] \div 4) + 64 * (m[k + 4] % 4)]
=============================================================================
