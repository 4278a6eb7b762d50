\* A split fails while the tail is still in flight: its lbz_long_bio_endio
\* writes the user bio's bi_status, which the tail's lbz_write_io_endio
\* then reads as its own.
CONSTANT NParts = 2
SPECIFICATION Spec
INVARIANT EndioSeesOwnStatus
CHECK_DEADLOCK FALSE
