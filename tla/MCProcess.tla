---- MODULE MCProcess ----
EXTENDS Process
CONSTANTS main, a, b
MCCoroutines == {main, a, b}
====
