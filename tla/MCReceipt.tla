----------------------------- MODULE MCReceipt -----------------------------
(* Small instances of Receipt: three seats on hosts that are one party by    *)
(* port, by a final dot or by a local name, or are not.                     *)
EXTENDS Receipt, TLC

CONSTANTS fa, fb, fc

ThreeFragments == <<fa, fb, fc>>
At(name, port) == [name |-> <<name>>, bracketed |-> FALSE, port |-> port, dot |-> FALSE]
Dotted(name) == [At(name, 0) EXCEPT !.dot = TRUE]
IPv6(parts, port) == [name |-> parts, bracketed |-> TRUE, port |-> port, dot |-> FALSE]

AllHosts ==
  {At("api.openai.com", 443), Dotted("api.openai.com"), At("llm.example", 0),
   At("localhost", 8080), IPv6(<<"", "", "1">>, 8081), IPv6(<<"fe80", "", "1">>, 0)}
TwoHosts == {At("api.openai.com", 443), At("llm.example", 0)}
LocalHosts == {At("127.0.0.1", 8793), At("localhost", 8793)}
IPv6Hosts == {IPv6(<<"2001", "db8", "", "1">>, 443), IPv6(<<"2001", "db8", "", "2">>, 443)}
OneToThree == 1..3
TwoOnly == {2}
SomeSeats == TwoHosts \X TwoOnly
NoSeats == {}
=============================================================================
