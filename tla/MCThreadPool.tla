---------------------------- MODULE MCThreadPool ----------------------------
EXTENDS ThreadPool

MCSizes == 0..2

=============================================================================
