---------------------------- MODULE MCDispatcher ----------------------------
EXTENDS Dispatcher

MCBidValues == {1, 2}

============================================================================
