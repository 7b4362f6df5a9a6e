------------------------------- MODULE Bytes -------------------------------
(***************************************************************************)
(* Bytes as the virtual terminal and the mark scanner read them.  A byte   *)
(* is a string: an ASCII character is itself, a control has its name.      *)
(***************************************************************************)
EXTENDS Integers, SequencesExt

Digits == <<"0", "1", "2", "3", "4", "5", "6", "7", "8", "9">>
DigitBytes == {Digits[i] : i \in 1..10}

\* A number in decimal (strconv.AppendInt), and the number some digits
\* stand for, saturating at cap.
Decimal(number) ==
    LET digits[n \in Nat] == IF n < 10 THEN <<Digits[n + 1]>>
                             ELSE Append(digits[n \div 10], Digits[(n % 10) + 1])
    IN  digits[number]
Number(ds, cap) ==
    LET digit(k)  == CHOOSE d \in 0..9 : Digits[d + 1] = ds[k]
        least(n)  == IF n > cap THEN cap ELSE n
        value[k \in 0..Len(ds)] == IF k = 0 THEN 0 ELSE least(10 * value[k - 1] + digit(k))
    IN  value[Len(ds)]

\* The pieces between separators: one more than there are separators.
Split(bytes, seps) ==
    LET more(ps, b) == IF b \in seps THEN Append(ps, <<>>)
                       ELSE [ps EXCEPT ![Len(ps)] = Append(@, b)]
        pieces[k \in 0..Len(bytes)] == IF k = 0 THEN << <<>> >> ELSE more(pieces[k - 1], bytes[k])
    IN  pieces[Len(bytes)]

\* The pieces put together again.
Joined(parts, sep) ==
    FlattenSeq([i \in DOMAIN parts |->
                   (IF i = 1 THEN <<>> ELSE <<sep>>) \o parts[i]])

\* How many bytes come before the first of a set.
Until(bytes, stops) ==
    LET at == {i \in DOMAIN bytes : bytes[i] \in stops}
    IN  IF at = {} THEN Len(bytes) ELSE (CHOOSE i \in at : \A j \in at : i <= j) - 1
=============================================================================
