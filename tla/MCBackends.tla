------------------------------ MODULE MCBackends ------------------------------
(***************************************************************************)
(* An instance of Backends for TLC: the lines and the texts of the         *)
(* compression service, and one call of each kind.                         *)
(***************************************************************************)
EXTENDS Backends

\* Tokens of log lines, and texts of which parts were redacted.
CONSTANTS
  log, word, number, wild, mail, phone, phone_at_x, mail_phone, mail_digits,
  MAIL, PHONE, PHONE_at_x, MAIL_phone, mail_PHONE, MAIL_PHONE, MAIL_digits

Tokenized == {log, word, number, wild, mail, phone, phone_at_x, mail_phone, mail_digits}

Redacted == {MAIL, PHONE, PHONE_at_x, MAIL_phone, mail_PHONE, MAIL_PHONE, MAIL_digits}

AllTexts == Tokenized \cup Redacted

\* What the rules make of the tokens: an address whose local part is a phone number, a
\* token that has an address and a phone number, and one in which the digits follow the
\* address so closely that no number begins there; and what is left of them.
PhoneRule ==
  [text \in AllTexts |-> CASE text = phone -> PHONE
                          [] text = phone_at_x -> PHONE_at_x
                          [] text = mail_phone -> mail_PHONE
                          [] text \in {MAIL_phone, MAIL_digits} -> MAIL_PHONE
                          [] OTHER -> text]

MailRule ==
  [text \in AllTexts |-> CASE text \in {mail, phone_at_x} -> MAIL
                          [] text = mail_phone -> MAIL_phone
                          [] text = mail_PHONE -> MAIL_PHONE
                          [] text = mail_digits -> MAIL_digits
                          [] OTHER -> text]

RewriteTable ==
  [rule \in {"phone", "email"} |-> IF rule = "phone" THEN PhoneRule ELSE MailRule]

HashOf(tokens) == <<"hash", tokens>>

LogLines ==
  {<< >>, <<log, word>>, <<log, number>>, <<log, number, number>>, <<log, phone_at_x>>,
   <<log, mail_phone>>, <<log, mail_digits>>, <<mail, word, phone>>}

\* Two numbers of a few digits may be one of a phone.
SpreadNumbers == {<<number, number>>}

\* Each time is in a month of its own; logs of one time are in one month.
MonthOf == [t \in {1, 2} |-> <<"month", t>>]

KindOf == [c \in {"fix", "embed", "stream"} |-> c]
==============================================================================
