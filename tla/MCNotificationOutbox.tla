------------------------ MODULE MCNotificationOutbox ------------------------
\* Small instances of NotificationOutbox for TLC.
EXTENDS NotificationOutbox

CONSTANTS c1, c2

TwoParts == <<c1, c2>>
NoParts == <<>>
=============================================================================
