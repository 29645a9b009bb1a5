------------------------------ MODULE MCGuest ------------------------------
EXTENDS Guest

CONSTANTS file, capture, other

MCWaiting == <<capture, other, file>>
MCTwo == <<capture, file>>
=============================================================================
