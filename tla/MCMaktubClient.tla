---------------------------- MODULE MCMaktubClient ----------------------------
EXTENDS MaktubClient

CONSTANTS bob, cat

Text(length)  == [text |-> "a text", hex |-> FALSE, length |-> length]
Digits(count) == [text |-> "digits", hex |-> TRUE, length |-> count]

ToBob(kind, message) == [kind |-> kind, recipients |-> <<bob>>, message |-> message]

\* 3960 and 3900 are the longest messages for one and for two recipients.
MCLetter ==
    { [kind |-> "bundle", recipients |-> <<bob, cat>>, message |-> Digits(64)],
      [kind |-> "flash",  recipients |-> <<bob, cat>>, message |-> Text(3900)],
      [kind |-> "flash",  recipients |-> <<bob, bob>>, message |-> Text(20)],
      ToBob("veil", Text(3960)),
      ToBob("script", Text(20)) }

MCRecipients == {<<bob>>, <<cat>>}
MCRecipient  == {bob, cat}
MCRegistered == {bob}
MCCall       == {1, 2}
===============================================================================
