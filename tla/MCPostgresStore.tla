-------------------------- MODULE MCPostgresStore --------------------------
\* A store used by two tasks after its initialisation and without faults, or
\* by one that initialises it on first use, with every fault; and one used by
\* two tasks that both initialise it.
EXTENDS PostgresStore

CONSTANTS alice, bob

MCTwo == {alice, bob}
MCUse(clients, initialized, faulty, appends) ==
  [clients |-> clients, initialized |-> initialized, faulty |-> faulty, appends |-> appends]
MCSettings == {MCUse(MCTwo, TRUE, FALSE, 2), MCUse({alice}, FALSE, TRUE, 3)}
MCFirstUse == {MCUse(MCTwo, FALSE, FALSE, 2)}
=============================================================================
